---- MODULE Spec2Model ----
(***************************************************************************)
(* The green-certification scoring engine of the-green-pulse               *)
(* (src/green_certification.py, class GreenBuildingAssessor), the ROI      *)
(* function, scenario comparison and portfolio analysis of the dashboard   *)
(* (src/app.py) and the prediction endpoints of the API (src/api.py).      *)
(*                                                                         *)
(* Numbers.  Emissions are whole kilograms of CO2 (1 ton = 1000 kg) and    *)
(* floor areas are whole square feet taken from multiples of 200, for      *)
(* which floor_area * eui * 0.145 is a whole number of kilograms for every *)
(* integer EUI.  A quotient the code computes is kept as an exact fraction *)
(* [num, den] with den > 0, and every comparison of the code is the        *)
(* comparison of those exact values: the binary rounding of Python floats  *)
(* is not represented.  round(x, n) is the set of nearest decimals: one    *)
(* value, or both neighbours when x lies exactly half way between them     *)
(* (what Python returns there depends on the binary value of x).           *)
(***************************************************************************)
EXTENDS Integers, Sequences, FiniteSets, TLC

VARIABLES leed_ea_points, breeam_thresholds, last, prev, portfolio, threads

vars == <<leed_ea_points, breeam_thresholds, last, prev, portfolio, threads>>

-----------------------------------------------------------------------------
(* Bounds of the explored inputs.                                          *)

MaxAreaK == 2
MaxBaselineK == 2
MaxDelta == 1
MaxGap == 2
MaxEmissionsK == 1

\* The longest list of buildings of a batch and the longest portfolio.
MaxBatch == 2

MaxPortfolio == 2

\* The number of concurrent callers of one assessor.
NThreads == 2

-----------------------------------------------------------------------------
(* Values and arithmetic.                                                  *)

\* Python's None for an optional number is the empty sequence, a present
\* value v is <<v>>.
None == <<>>

Some(v) == <<v>>

\* The exact quotient n / d (d # 0), with a positive denominator.
Rat(n, d) == IF d > 0 THEN [num |-> n, den |-> d] ELSE [num |-> 0 - n, den |-> 0 - d]

\* r >= k, r < k and r > k for a fraction r and an integer k.
RatGeq(r, k) == r.num >= k * r.den

RatLt(r, k) == r.num < k * r.den

RatGt(r, k) == r.num > k * r.den

\* The integers nearest to n / d (d > 0).
Nearest(n, d) ==
    LET q == (2 * n + d) \div (2 * d)
    IN  IF (2 * n + d) % (2 * d) = 0 THEN {q - 1, q} ELSE {q}

\* round(r, 1): a number of tenths.
Round1(r) == Nearest(10 * r.num, r.den)

\* round(r, 2): a number of hundredths.
Round2(r) == Nearest(100 * r.num, r.den)

\* A fraction of kilograms read in tons.
Tons(r) == Rat(r.num, r.den * 1000)

-----------------------------------------------------------------------------
(* GreenBuildingAssessor.__init__                                          *)

\* The table with the 30 % entry mistyped as 16 points.
LeedEaPointsTableMistyped ==
    [points          |-> <<1, 2, 3, 5, 7, 9, 11, 13, 16, 17, 18>>,
     improvement_pct |-> <<2, 4, 6, 10, 14, 18, 22, 26, 30, 34, 36>>]

\* The table with the 17-point entry typed twice.
LeedEaPointsTableRepeated ==
    [points          |-> <<1, 2, 3, 5, 7, 9, 11, 13, 15, 17, 17>>,
     improvement_pct |-> <<2, 4, 6, 10, 14, 18, 22, 26, 30, 34, 36>>]

LeedEaPointsTable ==
    [points          |-> <<1, 2, 3, 5, 7, 9, 11, 13, 15, 17, 18>>,
     improvement_pct |-> <<2, 4, 6, 10, 14, 18, 22, 26, 30, 34, 36>>]

BreeamThresholdsTable ==
    [Outstanding |-> 85, Excellent |-> 70, VeryGood |-> 55, Good |-> 45,
     Pass |-> 30]

-----------------------------------------------------------------------------
(* GreenBuildingAssessor.calculate_leed_ea_credits                         *)

\* The difference taken the wrong way round: (predicted - baseline).
ImprovementPctSwapped(predicted_emissions, baseline_emissions) ==
    Rat((predicted_emissions - baseline_emissions) * 100, baseline_emissions)

\* The subtraction left out: predicted / baseline * 100.
ImprovementPctRatio(predicted_emissions, baseline_emissions) ==
    Rat(predicted_emissions * 100, baseline_emissions)

\* improvement_pct = ((baseline - predicted) / baseline) * 100
ImprovementPct(predicted_emissions, baseline_emissions) ==
    Rat((baseline_emissions - predicted_emissions) * 100, baseline_emissions)

\* The first loop with an exclusive comparison (improvement_pct > threshold).
RECURSIVE EarnedLoopExclusive(_, _, _)
EarnedLoopExclusive(improvement_pct, i, earned_credits) ==
    IF i > Len(leed_ea_points.improvement_pct) THEN earned_credits
    ELSE EarnedLoopExclusive(improvement_pct, i + 1,
                    IF RatGt(improvement_pct, leed_ea_points.improvement_pct[i])
                    THEN leed_ea_points.points[i]
                    ELSE earned_credits)

\* The first loop leaving at the first satisfied threshold (a break after
\* the assignment).
RECURSIVE EarnedLoopFirst(_, _, _)
EarnedLoopFirst(improvement_pct, i, earned_credits) ==
    IF i > Len(leed_ea_points.improvement_pct) THEN earned_credits
    ELSE IF RatGeq(improvement_pct, leed_ea_points.improvement_pct[i])
         THEN leed_ea_points.points[i]
         ELSE EarnedLoopFirst(improvement_pct, i + 1, earned_credits)

\* The first loop: every satisfied threshold overwrites earned_credits, so
\* the last satisfied entry of the scan wins.
RECURSIVE EarnedLoop(_, _, _)
EarnedLoop(improvement_pct, i, earned_credits) ==
    IF i > Len(leed_ea_points.improvement_pct) THEN earned_credits
    ELSE EarnedLoop(improvement_pct, i + 1,
                    IF RatGeq(improvement_pct, leed_ea_points.improvement_pct[i])
                    THEN leed_ea_points.points[i]
                    ELSE earned_credits)

EarnedCredits(improvement_pct) == EarnedLoop(improvement_pct, 1, 0)

\* The second loop with an inclusive comparison (improvement_pct <= threshold).
RECURSIVE NextLoopInclusive(_, _)
NextLoopInclusive(improvement_pct, i) ==
    IF i > Len(leed_ea_points.improvement_pct) THEN 0
    ELSE IF ~RatGt(improvement_pct, leed_ea_points.improvement_pct[i]) THEN i
    ELSE NextLoopInclusive(improvement_pct, i + 1)

\* The second loop: the index of the first threshold above improvement_pct,
\* where the loop breaks; 0 when the loop runs to its end.
RECURSIVE NextLoop(_, _)
NextLoop(improvement_pct, i) ==
    IF i > Len(leed_ea_points.improvement_pct) THEN 0
    ELSE IF RatLt(improvement_pct, leed_ea_points.improvement_pct[i]) THEN i
    ELSE NextLoop(improvement_pct, i + 1)

NextLevelIndex(improvement_pct) == NextLoop(improvement_pct, 1)

\* The difference taken the wrong way round: target_emissions - predicted.
EmissionsReductionNeededSwapped(predicted_emissions, baseline_emissions, next_level_pct) ==
    Rat(baseline_emissions * (100 - next_level_pct) - 100 * predicted_emissions, 100)

\* emissions_reduction_needed, in kilograms:
\* predicted - baseline * (1 - next_level_pct / 100).
EmissionsReductionNeeded(predicted_emissions, baseline_emissions, next_level_pct) ==
    Rat(100 * predicted_emissions - baseline_emissions * (100 - next_level_pct), 100)

\* The rounding without its digits argument: round(x), whole tons.
ReductionReportedWhole(emissions_reduction_needed) ==
    IF RatGt(emissions_reduction_needed, 0)
    THEN { 10 * n : n \in Nearest(Tons(emissions_reduction_needed).num,
                                  Tons(emissions_reduction_needed).den) }
    ELSE {0}

\* round(emissions_reduction_needed, 1) if emissions_reduction_needed > 0
\* else 0, in tenths of a ton.
ReductionReported(emissions_reduction_needed) ==
    IF RatGt(emissions_reduction_needed, 0)
    THEN Round1(Tons(emissions_reduction_needed))
    ELSE {0}

\* The dicts with the improvement rounded without its digits argument:
\* round(improvement_pct), whole percents.
calculate_leed_ea_credits_whole_pct(predicted_emissions, baseline_emissions) ==
    LET improvement_pct == ImprovementPct(predicted_emissions, baseline_emissions)
        earned_credits == EarnedCredits(improvement_pct)
        i == NextLevelIndex(improvement_pct)
        emissions_reduction_needed ==
            IF i = 0 THEN Rat(0, 1)
            ELSE EmissionsReductionNeeded(predicted_emissions, baseline_emissions,
                                          leed_ea_points.improvement_pct[i])
    IN  { [current_improvement_pct         |-> 10 * cip,
           earned_credits                  |-> earned_credits,
           max_credits                     |-> 18,
           next_level_credits              |->
               IF i = 0 THEN None ELSE Some(leed_ea_points.points[i]),
           next_level_improvement_pct      |->
               IF i = 0 THEN None ELSE Some(leed_ea_points.improvement_pct[i]),
           emissions_reduction_needed_tons |-> ern,
           certification_eligible          |->
               (earned_credits >= leed_ea_points.points[1])] :
          cip \in Nearest(improvement_pct.num, improvement_pct.den),
          ern \in ReductionReported(emissions_reduction_needed) }

\* The dicts with a strict eligibility test: earned_credits > points[0].
calculate_leed_ea_credits_strict_eligible(predicted_emissions, baseline_emissions) ==
    LET improvement_pct == ImprovementPct(predicted_emissions, baseline_emissions)
        earned_credits == EarnedCredits(improvement_pct)
        i == NextLevelIndex(improvement_pct)
        emissions_reduction_needed ==
            IF i = 0 THEN Rat(0, 1)
            ELSE EmissionsReductionNeeded(predicted_emissions, baseline_emissions,
                                          leed_ea_points.improvement_pct[i])
    IN  { [current_improvement_pct         |-> cip,
           earned_credits                  |-> earned_credits,
           max_credits                     |-> 18,
           next_level_credits              |->
               IF i = 0 THEN None ELSE Some(leed_ea_points.points[i]),
           next_level_improvement_pct      |->
               IF i = 0 THEN None ELSE Some(leed_ea_points.improvement_pct[i]),
           emissions_reduction_needed_tons |-> ern,
           certification_eligible          |->
               (earned_credits > leed_ea_points.points[1])] :
          cip \in Round1(improvement_pct),
          ern \in ReductionReported(emissions_reduction_needed) }

\* The dicts calculate_leed_ea_credits can return (baseline # 0).
\* current_improvement_pct is in tenths of a percent and
\* emissions_reduction_needed_tons in tenths of a ton.
calculate_leed_ea_credits(predicted_emissions, baseline_emissions) ==
    LET improvement_pct == ImprovementPct(predicted_emissions, baseline_emissions)
        earned_credits == EarnedCredits(improvement_pct)
        i == NextLevelIndex(improvement_pct)
        next_level_pct ==
            IF i = 0 THEN None ELSE Some(leed_ea_points.improvement_pct[i])
        next_level_credits ==
            IF i = 0 THEN None ELSE Some(leed_ea_points.points[i])
        emissions_reduction_needed ==
            IF i = 0 THEN Rat(0, 1)
            ELSE EmissionsReductionNeeded(predicted_emissions, baseline_emissions,
                                          leed_ea_points.improvement_pct[i])
    IN  { [current_improvement_pct         |-> cip,
           earned_credits                  |-> earned_credits,
           max_credits                     |-> 18,
           next_level_credits              |-> next_level_credits,
           next_level_improvement_pct      |-> next_level_pct,
           emissions_reduction_needed_tons |-> ern,
           certification_eligible          |->
               (earned_credits >= leed_ea_points.points[1])] :
          cip \in Round1(improvement_pct),
          ern \in ReductionReported(emissions_reduction_needed) }

-----------------------------------------------------------------------------
(* GreenBuildingAssessor.estimate_baseline_emissions                       *)

baseline_eui ==
    ("Office" :> 58) @@ ("Retail" :> 52) @@ ("Healthcare" :> 215) @@
    ("Educational" :> 70) @@ ("Warehouse" :> 32) @@ ("Multi-Family" :> 46) @@
    ("Hotel" :> 88)

\* The lookup with a default of 0: baseline_eui.get(building_type, 0).
EuiDefaultZero(building_type) ==
    IF building_type \in DOMAIN baseline_eui THEN baseline_eui[building_type] ELSE 0

\* baseline_eui.get(building_type, 60)
Eui(building_type) ==
    IF building_type \in DOMAIN baseline_eui THEN baseline_eui[building_type] ELSE 60

\* The conversion to tons with a floor division: co2_kg // 1000.
estimate_baseline_emissions_floor(floor_area, building_type) ==
    ((floor_area * Eui(building_type) * 145) \div 1000000) * 1000

\* co2_tons, in kilograms: floor_area * eui * 0.145.
estimate_baseline_emissions(floor_area, building_type) ==
    (floor_area * Eui(building_type) * 145) \div 1000

-----------------------------------------------------------------------------
(* GreenBuildingAssessor._generate_cert_recommendations                    *)

\* A lookup whose value for an absent key is 100 instead of the default
\* given: features.get(key, 100).
GetAbsentAsFull(features, key, default) ==
    IF key \in DOMAIN features THEN features[key] ELSE 100

\* features.get(key, default)
Get(features, key, default) ==
    IF key \in DOMAIN features THEN features[key] ELSE default

\* features.get(key) in values; an absent key gives None, which is in no list.
GetIn(features, key, values) ==
    key \in DOMAIN features /\ features[key] \in values

\* The four dicts the rules append.  target_reduction is in tenths of a ton
\* and estimated_impact_tons in kilograms: (n / 10) t * 0.3 = 30 * n kg.
RenewableRec(target_reduction) ==
    [category              |-> "Renewable Energy",
     action                |-> "Increase on-site renewable energy to 30%",
     leed_credits          |-> "EA Credit: Renewable Energy Production",
     estimated_impact_tons |-> target_reduction * 30,
     cost_consideration    |-> "High initial investment, 5-7 year payback"]

HvacRec(target_reduction) ==
    [category              |-> "HVAC Efficiency",
     action                |-> "Upgrade to high-efficiency heat pump or geothermal",
     leed_credits          |-> "EA Prerequisite: Minimum Energy Performance",
     estimated_impact_tons |-> target_reduction * 25,
     cost_consideration    |-> "Medium investment, 3-5 year payback"]

EnvelopeRec(target_reduction) ==
    [category              |-> "Building Envelope",
     action                |-> "Upgrade insulation and air sealing",
     leed_credits          |-> "EA Credit: Optimize Energy Performance",
     estimated_impact_tons |-> target_reduction * 20,
     cost_consideration    |-> "Low-medium investment, immediate impact"]

LightingRec(target_reduction) ==
    [category              |-> "Lighting Systems",
     action                |-> "Complete LED retrofit with occupancy sensors",
     leed_credits          |-> "EA Credit: Optimize Energy Performance",
     estimated_impact_tons |-> target_reduction * 10,
     cost_consideration    |-> "Low investment, 2-3 year payback"]

\* The rules with the renewable comparison inclusive (renewable_pct <= 30).
FiredRulesInclusive(features, target_reduction) ==
    (IF Get(features, "renewable_pct", 0) <= 30
     THEN <<RenewableRec(target_reduction)>> ELSE <<>>)
    \o (IF GetIn(features, "hvac_type", {"Gas Furnace", "Electric Baseboard"})
        THEN <<HvacRec(target_reduction)>> ELSE <<>>)
    \o (IF GetIn(features, "insulation_rating", {"Poor", "Fair"})
        THEN <<EnvelopeRec(target_reduction)>> ELSE <<>>)
    \o (IF Get(features, "led_lighting_pct", 0) < 90
        THEN <<LightingRec(target_reduction)>> ELSE <<>>)

\* The list after the four appends, in rule order.
FiredRules(features, target_reduction) ==
    (IF Get(features, "renewable_pct", 0) < 30
     THEN <<RenewableRec(target_reduction)>> ELSE <<>>)
    \o (IF GetIn(features, "hvac_type", {"Gas Furnace", "Electric Baseboard"})
        THEN <<HvacRec(target_reduction)>> ELSE <<>>)
    \o (IF GetIn(features, "insulation_rating", {"Poor", "Fair"})
        THEN <<EnvelopeRec(target_reduction)>> ELSE <<>>)
    \o (IF Get(features, "led_lighting_pct", 0) < 90
        THEN <<LightingRec(target_reduction)>> ELSE <<>>)

\* A descending sort that is not stable: an element is placed before the
\* elements of equal impact.
RECURSIVE InsertByImpactUnstable(_, _)
InsertByImpactUnstable(sorted, rec) ==
    IF sorted = <<>> THEN <<rec>>
    ELSE IF Head(sorted).estimated_impact_tons > rec.estimated_impact_tons
         THEN <<Head(sorted)>> \o InsertByImpactUnstable(Tail(sorted), rec)
         ELSE <<rec>> \o sorted

\* The sort without reverse = True: ascending and stable.
RECURSIVE InsertByImpactAscending(_, _)
InsertByImpactAscending(sorted, rec) ==
    IF sorted = <<>> THEN <<rec>>
    ELSE IF Head(sorted).estimated_impact_tons <= rec.estimated_impact_tons
         THEN <<Head(sorted)>> \o InsertByImpactAscending(Tail(sorted), rec)
         ELSE <<rec>> \o sorted

\* list.sort(key = estimated_impact_tons, reverse = True): descending and
\* stable, so an element is placed behind every element of the sorted prefix
\* whose impact is at least its own.
RECURSIVE InsertByImpact(_, _)
InsertByImpact(sorted, rec) ==
    IF sorted = <<>> THEN <<rec>>
    ELSE IF Head(sorted).estimated_impact_tons >= rec.estimated_impact_tons
         THEN <<Head(sorted)>> \o InsertByImpact(Tail(sorted), rec)
         ELSE <<rec>> \o sorted

RECURSIVE SortLoop(_, _)
SortLoop(recs, sorted) ==
    IF recs = <<>> THEN sorted
    ELSE SortLoop(Tail(recs), InsertByImpact(sorted, Head(recs)))

SortByImpact(recs) == SortLoop(recs, <<>>)

generate_cert_recommendations(features, target_reduction) ==
    SortByImpact(FiredRules(features, target_reduction))

-----------------------------------------------------------------------------
(* GreenBuildingAssessor.assess_building                                   *)

\* The chain with a strict first comparison (earned_credits > 13).
PerformanceRatingStrict(earned_credits) ==
    IF earned_credits > 13 THEN "Exceptional"
    ELSE IF earned_credits >= 7 THEN "High Performance"
    ELSE IF earned_credits >= 3 THEN "Above Average"
    ELSE IF earned_credits >= 1 THEN "Slightly Above Baseline"
    ELSE "Below Baseline"

\* The chain with the labels of its second and third branch exchanged.
PerformanceRatingSwapped(earned_credits) ==
    IF earned_credits >= 13 THEN "Exceptional"
    ELSE IF earned_credits >= 7 THEN "Above Average"
    ELSE IF earned_credits >= 3 THEN "High Performance"
    ELSE IF earned_credits >= 1 THEN "Slightly Above Baseline"
    ELSE "Below Baseline"

\* The if / elif chain over leed['earned_credits'].
PerformanceRating(earned_credits) ==
    IF earned_credits >= 13 THEN "Exceptional"
    ELSE IF earned_credits >= 7 THEN "High Performance"
    ELSE IF earned_credits >= 3 THEN "Above Average"
    ELSE IF earned_credits >= 1 THEN "Slightly Above Baseline"
    ELSE "Below Baseline"

\* An outcome that is an exception has the one field error.
Raised(outcome) == "error" \in DOMAIN outcome

\* assess_building scoring against the baseline it reports, round(baseline, 1),
\* instead of the baseline it estimated.
assess_building_rounded_baseline(predicted_emissions, floor_area, building_type, current_features) ==
    LET baseline == estimate_baseline_emissions(floor_area, building_type)
    IN  IF baseline = 0 \/ floor_area = 0
        THEN { [error |-> "ZeroDivisionError"] }
        ELSE UNION {
               IF b1 = 0 THEN { [error |-> "ZeroDivisionError"] }
               ELSE { [baseline_emissions_tons     |-> b1,
                       predicted_emissions_tons    |-> p1,
                       performance_rating          |-> PerformanceRating(leed.earned_credits),
                       leed_assessment             |-> leed,
                       emissions_intensity_kg_sqft |-> e2,
                       recommendations             |->
                           generate_cert_recommendations(
                               current_features, leed.emissions_reduction_needed_tons)] :
                      leed \in calculate_leed_ea_credits(predicted_emissions, 100 * b1),
                      p1 \in Round1(Tons(Rat(predicted_emissions, 1))),
                      e2 \in Round2(Rat(predicted_emissions, floor_area)) } :
               b1 \in Round1(Tons(Rat(baseline, 1))) }

\* The outcomes of assess_building: the returned dict, or the
\* ZeroDivisionError of the division by a zero baseline (floor_area = 0).
\* baseline_emissions_tons and predicted_emissions_tons are in tenths of a
\* ton, emissions_intensity_kg_sqft in hundredths of a kg per square foot.
assess_building(predicted_emissions, floor_area, building_type, current_features) ==
    LET baseline == estimate_baseline_emissions(floor_area, building_type)
    IN  IF baseline = 0 \/ floor_area = 0
        THEN { [error |-> "ZeroDivisionError"] }
        ELSE { [baseline_emissions_tons     |-> b1,
                predicted_emissions_tons    |-> p1,
                performance_rating          |-> PerformanceRating(leed.earned_credits),
                leed_assessment             |-> leed,
                emissions_intensity_kg_sqft |-> e2,
                recommendations             |->
                    generate_cert_recommendations(
                        current_features, leed.emissions_reduction_needed_tons)] :
               leed \in calculate_leed_ea_credits(predicted_emissions, baseline),
               b1 \in Round1(Tons(Rat(baseline, 1))),
               p1 \in Round1(Tons(Rat(predicted_emissions, 1))),
               e2 \in Round2(Rat(predicted_emissions, floor_area)) }

-----------------------------------------------------------------------------
(* calculate_improvement_roi (src/app.py).  Money and tons are exact       *)
(* fractions in lowest terms, so equal values are equal records.           *)

RECURSIVE Gcd(_, _)
Gcd(a, b) == IF b = 0 THEN a ELSE Gcd(b, a % b)

Abs(n) == IF n < 0 THEN 0 - n ELSE n

\* The fraction n / d (d # 0) in lowest terms with a positive denominator.
Q(n, d) ==
    LET g == Gcd(Abs(n), Abs(d))
        sign == IF d < 0 THEN 0 - 1 ELSE 1
    IN  [num |-> sign * (n \div g), den |-> sign * (d \div g)]

QInt(n) == [num |-> n, den |-> 1]

\* The product, with the common factors removed before multiplying.
QMul(a, b) ==
    LET g1 == Gcd(Abs(a.num), b.den)
        g2 == Gcd(Abs(b.num), a.den)
    IN  Q((a.num \div g1) * (b.num \div g2), (a.den \div g2) * (b.den \div g1))

\* The difference and the sum over the least common denominator.
QSub(a, b) ==
    LET g == Gcd(a.den, b.den)
    IN  Q(a.num * (b.den \div g) - b.num * (a.den \div g), (a.den \div g) * b.den)

QAdd(a, b) ==
    LET g == Gcd(a.den, b.den)
    IN  Q(a.num * (b.den \div g) + b.num * (a.den \div g), (a.den \div g) * b.den)

\* a / b for b # 0.
QDiv(a, b) ==
    QMul(a, IF b.num > 0 THEN [num |-> b.den, den |-> b.num]
            ELSE [num |-> 0 - b.den, den |-> 0 - b.num])

QLt(a, b) ==
    LET g == Gcd(a.den, b.den)
    IN  a.num * (b.den \div g) < b.num * (a.den \div g)

roi_data ==
    ("Renewable Energy (Solar)" :>
        [cost_per_sqft |-> Q(85, 10), reduction_pct |-> 25,
         payback_years |-> QInt(6), annual_savings_per_ton |-> 50]) @@
    ("HVAC Upgrade (Heat Pump)" :>
        [cost_per_sqft |-> QInt(12), reduction_pct |-> 20,
         payback_years |-> Q(45, 10), annual_savings_per_ton |-> 65]) @@
    ("Insulation Upgrade" :>
        [cost_per_sqft |-> Q(35, 10), reduction_pct |-> 15,
         payback_years |-> QInt(3), annual_savings_per_ton |-> 55]) @@
    ("LED Retrofit" :>
        [cost_per_sqft |-> Q(12, 10), reduction_pct |-> 8,
         payback_years |-> QInt(2), annual_savings_per_ton |-> 45]) @@
    ("Building Envelope" :>
        [cost_per_sqft |-> Q(55, 10), reduction_pct |-> 18,
         payback_years |-> QInt(4), annual_savings_per_ton |-> 58])

\* The function's return None.
NoResult == [none |-> TRUE]

IsNone(outcome) == "none" \in DOMAIN outcome

\* The percentage used as a fraction: current_emissions * reduction_pct.
RoiEmissionsReductionNoPercent(data, current_emissions) ==
    QMul(Q(current_emissions, 1000), QInt(data.reduction_pct))

\* emissions_reduction = current_emissions * (reduction_pct / 100), in tons;
\* current_emissions is in kilograms.
RoiEmissionsReduction(data, current_emissions) ==
    QMul(Q(current_emissions, 1000), Q(data.reduction_pct, 100))

\* The ROI of five years whatever the horizon.
RoiFiveYears(annual_savings, initial_cost, years) ==
    QMul(QDiv(QSub(QMul(annual_savings, QInt(5)), initial_cost), initial_cost),
         QInt(100))

\* ((annual_savings * years - initial_cost) / initial_cost) * 100,
\* initial_cost # 0.
Roi(annual_savings, initial_cost, years) ==
    QMul(QDiv(QSub(QMul(annual_savings, QInt(years)), initial_cost), initial_cost),
         QInt(100))

\* The returned dict with a guard that turns a zero cost into an ROI of 0.
RoiDictGuarded(data, current_emissions, floor_area) ==
    LET initial_cost == QMul(QInt(floor_area), data.cost_per_sqft)
        emissions_reduction == RoiEmissionsReduction(data, current_emissions)
        annual_savings ==
            QMul(emissions_reduction, QInt(data.annual_savings_per_ton))
    IN  [initial_cost             |-> initial_cost,
         emissions_reduction_tons |-> emissions_reduction,
         annual_cost_savings      |-> annual_savings,
         payback_period_years     |-> data.payback_years,
         roi_5_year               |->
             IF initial_cost.num = 0 THEN QInt(0)
             ELSE Roi(annual_savings, initial_cost, 5),
         roi_10_year              |->
             IF initial_cost.num = 0 THEN QInt(0)
             ELSE Roi(annual_savings, initial_cost, 10),
         reduction_pct            |-> data.reduction_pct]

\* The returned dict of a known improvement type; building the dict divides
\* by initial_cost, which raises ZeroDivisionError when it is 0.
RoiDict(data, current_emissions, floor_area) ==
    LET initial_cost == QMul(QInt(floor_area), data.cost_per_sqft)
        emissions_reduction == RoiEmissionsReduction(data, current_emissions)
        annual_savings ==
            QMul(emissions_reduction, QInt(data.annual_savings_per_ton))
    IN  IF initial_cost.num = 0
        THEN [error |-> "ZeroDivisionError"]
        ELSE [initial_cost             |-> initial_cost,
              emissions_reduction_tons |-> emissions_reduction,
              annual_cost_savings      |-> annual_savings,
              payback_period_years     |-> data.payback_years,
              roi_5_year               |-> Roi(annual_savings, initial_cost, 5),
              roi_10_year              |-> Roi(annual_savings, initial_cost, 10),
              reduction_pct            |-> data.reduction_pct]

\* A financial model that reads building_type: healthcare floor area
\* counts twice in the cost.
calculate_improvement_roi_by_type(improvement_type, current_emissions, floor_area, building_type) ==
    IF improvement_type \notin DOMAIN roi_data
    THEN NoResult
    ELSE RoiDict(roi_data[improvement_type], current_emissions,
                 IF building_type = "Healthcare" THEN 2 * floor_area
                 ELSE floor_area)

calculate_improvement_roi(improvement_type, current_emissions, floor_area, building_type) ==
    IF improvement_type \notin DOMAIN roi_data
    THEN NoResult
    ELSE RoiDict(roi_data[improvement_type], current_emissions, floor_area)

-----------------------------------------------------------------------------
(* The callers of calculate_improvement_roi in src/app.py.                 *)

\* The inner loop of the scenario comparison without its guard: roi is
\* subscripted even when it is None, which raises TypeError.
RECURSIVE ScenarioLoopUnguarded(_, _, _, _, _, _)
ScenarioLoopUnguarded(types, baseline_emissions, sc_area, sc_type, total_cost, total_annual_savings) ==
    IF types = <<>>
    THEN [total_cost |-> total_cost, total_annual_savings |-> total_annual_savings]
    ELSE LET roi == calculate_improvement_roi(Head(types), baseline_emissions,
                                              sc_area, sc_type)
         IN  IF Raised(roi) THEN roi
             ELSE IF IsNone(roi) THEN [error |-> "TypeError"]
             ELSE ScenarioLoopUnguarded(Tail(types), baseline_emissions, sc_area,
                      sc_type, QAdd(total_cost, roi.initial_cost),
                      QAdd(total_annual_savings, roi.annual_cost_savings))

\* The inner loop of the scenario comparison: a result that is None is
\* skipped by `if roi:`, an exception of the call leaves the loop.
RECURSIVE ScenarioLoop(_, _, _, _, _, _)
ScenarioLoop(types, baseline_emissions, sc_area, sc_type, total_cost, total_annual_savings) ==
    IF types = <<>>
    THEN [total_cost |-> total_cost, total_annual_savings |-> total_annual_savings]
    ELSE LET roi == calculate_improvement_roi(Head(types), baseline_emissions,
                                              sc_area, sc_type)
         IN  IF Raised(roi) THEN roi
             ELSE IF IsNone(roi)
             THEN ScenarioLoop(Tail(types), baseline_emissions, sc_area, sc_type,
                               total_cost, total_annual_savings)
             ELSE ScenarioLoop(Tail(types), baseline_emissions, sc_area, sc_type,
                               QAdd(total_cost, roi.initial_cost),
                               QAdd(total_annual_savings, roi.annual_cost_savings))

\* The branches of the chain over sc_name: reduction_pct (in hundredths) and
\* types.
scenario_branches ==
    << [reduction_pct |-> 45,
        types |-> <<"Renewable Energy (Solar)", "HVAC Upgrade (Heat Pump)">>],
       [reduction_pct |-> 35,
        types |-> <<"HVAC Upgrade (Heat Pump)", "Insulation Upgrade">>],
       [reduction_pct |-> 86,
        types |-> <<"Renewable Energy (Solar)", "HVAC Upgrade (Heat Pump)",
                    "Insulation Upgrade", "LED Retrofit", "Building Envelope">>],
       [reduction_pct |-> 25, types |-> <<"Renewable Energy (Solar)">>],
       [reduction_pct |-> 20, types |-> <<"HVAC Upgrade (Heat Pump)">>],
       [reduction_pct |-> 15, types |-> <<"Insulation Upgrade">>],
       [reduction_pct |-> 8, types |-> <<"LED Retrofit">>] >>

\* One scenario of the comparison: the dict appended to scenarios, or the
\* exception of the inner loop.  Emissions are tons as fractions.
compare_scenario(scenario, baseline_emissions, sc_area, sc_type) ==
    LET base == Q(baseline_emissions, 1000)
        new_emissions == QMul(base, Q(100 - scenario.reduction_pct, 100))
        totals == ScenarioLoop(scenario.types, baseline_emissions, sc_area,
                               sc_type, QInt(0), QInt(0))
    IN  IF Raised(totals) THEN totals
        ELSE [emissions |-> new_emissions,
              reduction |-> QSub(base, new_emissions),
              reduction_pct |-> scenario.reduction_pct,
              cost      |-> totals.total_cost,
              savings   |-> totals.total_annual_savings,
              payback   |-> IF QLt(QInt(0), totals.total_annual_savings)
                            THEN QDiv(totals.total_cost, totals.total_annual_savings)
                            ELSE QInt(999),
              roi_10    |-> IF QLt(QInt(0), totals.total_cost)
                            THEN Roi(totals.total_annual_savings, totals.total_cost, 10)
                            ELSE QInt(0),
              leed      |-> (scenario.reduction_pct * 18) \div 100]

\* The cumulative cash flow of the ROI page: minus the cost, then one
\* annual saving more each year.
RECURSIVE CumulativeCash(_, _, _)
CumulativeCash(cash, annual_cost_savings, year) ==
    IF year > 10 THEN cash
    ELSE CumulativeCash(Append(cash, QAdd(cash[Len(cash)], annual_cost_savings)),
                        annual_cost_savings, year + 1)

\* The ROI page after the button: nothing is shown for a result that is
\* None (`if roi_result:`), the metrics and the cash flow otherwise; an
\* exception of the call is not caught.
roi_page(selected_improvement, roi_emissions, roi_area, roi_type) ==
    LET roi_result == calculate_improvement_roi(selected_improvement,
                                                roi_emissions, roi_area, roi_type)
    IN  IF Raised(roi_result) THEN roi_result
        ELSE IF IsNone(roi_result) THEN [shown |-> FALSE]
        ELSE [shown           |-> TRUE,
              roi_result      |-> roi_result,
              cumulative_cash |->
                  CumulativeCash(<<QSub(QInt(0), roi_result.initial_cost)>>,
                                 roi_result.annual_cost_savings, 1)]

-----------------------------------------------------------------------------
(* Batches: POST /predict/batch (src/api.py) and the portfolio CSV         *)
(* analysis of the dashboard (src/app.py).  The pickled regressor and      *)
(* label encoders are artifacts outside the source: artifacts.loaded says  *)
(* whether they were read, artifacts.classes are the HVAC labels the       *)
(* encoder was fitted on, and the regressor predicts artifacts.intensity   *)
(* kilograms per square foot.  The timestamp of a prediction is left out.  *)

\* The HVAC labels of generate_data.py, which are those the validator of
\* BuildingInput accepts.
hvac_options ==
    {"Gas Furnace", "Heat Pump", "Electric Baseboard", "Geothermal",
     "District Steam", "Packaged Rooftop"}

\* benchmark_ranges, in tenths of a kilogram per square foot.
benchmark_ranges ==
    ("Office" :> <<30, 80>>) @@ ("Retail" :> <<30, 70>>) @@
    ("Healthcare" :> <<100, 200>>) @@ ("Educational" :> <<40, 90>>) @@
    ("Warehouse" :> <<15, 40>>) @@ ("Multi-Family" :> <<30, 60>>) @@
    ("Hotel" :> <<50, 110>>)

\* le.transform followed by model.predict: ValueError for a label the
\* encoder has not seen, the predicted kilograms otherwise.
model_predict(building, artifacts) ==
    IF building.hvac_type \notin artifacts.classes
    THEN [error |-> "ValueError"]
    ELSE [prediction |-> artifacts.intensity * building.floor_area_sqft]

\* The status with the first comparison non-strict.
BenchmarkStatusInclusive(emissions_per_sqft, building_type) ==
    IF ~RatGt(emissions_per_sqft, benchmark_ranges[building_type][1])
    THEN "excellent"
    ELSE IF ~RatGt(emissions_per_sqft, benchmark_ranges[building_type][2])
    THEN "typical"
    ELSE "high"

\* The status of an intensity given in tenths of a kilogram per square foot.
BenchmarkStatus(emissions_per_sqft, building_type) ==
    IF RatLt(emissions_per_sqft, benchmark_ranges[building_type][1])
    THEN "excellent"
    ELSE IF ~RatGt(emissions_per_sqft, benchmark_ranges[building_type][2])
    THEN "typical"
    ELSE "high"

\* The outcomes of predict: HTTPException 503 without artifacts,
\* HTTPException 400 for any exception of the body, the PredictionOutput
\* otherwise (tons and kilograms per square foot in hundredths,
\* car_equivalent in tenths).
predict(building, artifacts) ==
    IF ~artifacts.loaded
    THEN { [error |-> "HTTPException", status_code |-> 503] }
    ELSE LET p == model_predict(building, artifacts)
         IN  IF Raised(p)
             THEN { [error |-> "HTTPException", status_code |-> 400] }
             ELSE { [co2_emissions_tons_year   |-> t2,
                     co2_emissions_per_sqft_kg |-> e2,
                     car_equivalent            |-> c1,
                     benchmark_status          |->
                         BenchmarkStatus(Rat(10 * p.prediction,
                                             building.floor_area_sqft),
                                         building.building_type)] :
                    t2 \in Round2(Tons(Rat(p.prediction, 1))),
                    e2 \in Round2(Rat(p.prediction, building.floor_area_sqft)),
                    c1 \in Round1(Rat(p.prediction, 4600)) }

\* A loop that ends at the first building whose prediction raises,
\* without a marker for it.
RECURSIVE BatchLoopUncaught(_, _, _)
BatchLoopUncaught(buildings, artifacts, results) ==
    IF buildings = <<>> THEN {results}
    ELSE UNION { IF Raised(o) THEN {results}
                 ELSE BatchLoopUncaught(Tail(buildings), artifacts,
                                        Append(results, o)) :
                 o \in predict(Head(buildings), artifacts) }

\* The loop of predict_batch: each building appends its result, or the
\* marker {"error": ...} when predict raised.  The lists results can be.
RECURSIVE BatchLoop(_, _, _)
BatchLoop(buildings, artifacts, results) ==
    IF buildings = <<>> THEN {results}
    ELSE UNION { BatchLoop(Tail(buildings), artifacts,
                           Append(results,
                                  IF Raised(o)
                                  THEN [error |-> "Prediction error"]
                                  ELSE o)) :
                 o \in predict(Head(buildings), artifacts) }

\* The outcomes of predict_batch.
predict_batch(buildings, artifacts) ==
    IF ~artifacts.loaded
    THEN { [error |-> "HTTPException", status_code |-> 503] }
    ELSE { [predictions |-> r, count |-> Len(r)] :
           r \in BatchLoop(buildings, artifacts, <<>>) }

\* The features the portfolio loop hands to assess_building.
RowFeatures(building_data) ==
    [renewable_pct     |-> building_data.renewable_pct,
     hvac_type         |-> building_data.hvac_type,
     insulation_rating |-> building_data.insulation_rating,
     led_lighting_pct  |-> building_data.led_lighting_pct]

\* The dict the portfolio loop appends for a row (emissions in kilograms).
\* earned_credits is the same in every rounding of the assessment.
PortfolioEntry(row, prediction) ==
    LET leed == CHOOSE a \in assess_building(prediction, row.floor_area_sqft,
                                             row.building_type,
                                             RowFeatures(row)) : TRUE
    IN  [name              |-> row.building_name,
         emissions         |-> prediction,
         emissions_per_sqft |-> Q(prediction, row.floor_area_sqft),
         floor_area        |-> row.floor_area_sqft,
         building_type     |-> row.building_type,
         leed_credits      |-> leed.leed_assessment.earned_credits]

\* The loop over the rows of the CSV: a row whose prediction raises ends
\* the loop in the handler around the whole analysis, with the rows before
\* it appended and the rows after it not looked at.
RECURSIVE PortfolioLoop(_, _, _)
PortfolioLoop(rows, artifacts, entries) ==
    IF rows = <<>> THEN [portfolio |-> entries, message |-> "success"]
    ELSE LET p == model_predict(Head(rows), artifacts)
         IN  IF Raised(p)
             THEN [portfolio |-> entries, message |-> "error"]
             ELSE PortfolioLoop(Tail(rows), artifacts,
                                Append(entries,
                                       PortfolioEntry(Head(rows), p.prediction)))

-----------------------------------------------------------------------------
(* The example of the __main__ block.                                      *)

test_features ==
    [renewable_pct |-> 10, hvac_type |-> "Gas Furnace",
     insulation_rating |-> "Fair", led_lighting_pct |-> 60]

-----------------------------------------------------------------------------
(* Inputs of the calls.                                                    *)

\* Floor areas: a negative one, zero, small ones and the example's.
Areas == {200 * k : k \in (0 - 1)..MaxAreaK} \cup {15000, 15200}

\* The seven keys of baseline_eui and a type that is not a key.
BuildingTypes == DOMAIN baseline_eui \cup {"Industrial"}

\* Baselines of direct calls of calculate_leed_ea_credits, all positive.
Baselines == {50 * k : k \in 1..MaxBaselineK} \cup {10, 126200}

\* Predictions for a baseline: around every threshold of the table, at and
\* above the baseline, and the values of the examples.
Predictions(baseline) ==
    IF baseline > 0
    THEN { (baseline * (100 - LeedEaPointsTable.improvement_pct[i])) \div 100 + d :
             i \in DOMAIN LeedEaPointsTable.improvement_pct,
             d \in (0 - MaxDelta)..MaxDelta }
         \cup {0, baseline, baseline + 1, 2 * baseline, 87200, 200000}
    ELSE {0, 87200}

\* A key of the features dict: absent, or present with one of the values.
Entry(key, values) == {<<>>} \cup {key :> v : v \in values}

FeatureDicts ==
    { a @@ b @@ c @@ d :
        a \in Entry("renewable_pct", {10, 30}),
        b \in Entry("hvac_type", {"Gas Furnace", "Electric Baseboard", "Heat Pump"}),
        c \in Entry("insulation_rating", {"Poor", "Fair", "Good"}),
        d \in Entry("led_lighting_pct", {60, 90}) }

-----------------------------------------------------------------------------
(* The calls.  last is the latest call with its arguments and outcome;     *)
(* prev is the call before it when a caller evaluates one subject again.   *)

\* The concurrent callers of one assessor, and a caller that has not
\* called yet.
Threads == 1..NThreads

Idle == [pc |-> "idle"]

NoCall == [op |-> "none"]

Init ==
    /\ leed_ea_points = LeedEaPointsTable
    /\ breeam_thresholds = BreeamThresholdsTable
    /\ last = NoCall
    /\ prev = NoCall
    /\ portfolio = <<>>
    /\ threads = [t \in Threads |-> Idle]

CallLeed(predicted_emissions, baseline_emissions) ==
    \E r \in calculate_leed_ea_credits(predicted_emissions, baseline_emissions) :
        last' = [op                  |-> "calculate_leed_ea_credits",
                 predicted_emissions |-> predicted_emissions,
                 baseline_emissions  |-> baseline_emissions,
                 result              |-> r]

CallBaseline(floor_area, building_type) ==
    last' = [op            |-> "estimate_baseline_emissions",
             floor_area    |-> floor_area,
             building_type |-> building_type,
             result        |-> estimate_baseline_emissions(floor_area, building_type)]

CallAssess(predicted_emissions, floor_area, building_type, current_features) ==
    \E r \in assess_building(predicted_emissions, floor_area, building_type,
                              current_features) :
        last' = [op                  |-> "assess_building",
                 predicted_emissions |-> predicted_emissions,
                 floor_area          |-> floor_area,
                 building_type       |-> building_type,
                 current_features    |-> current_features,
                 result              |-> r]

\* Reductions handed to a direct call of _generate_cert_recommendations, in
\* tenths of a ton: a negative one, none, small ones and the 30 t of the
\* example.
Gaps == {0 - 10, 300} \cup 0..MaxGap

CallRecommend(features, target_reduction) ==
    last' = [op               |-> "_generate_cert_recommendations",
             features         |-> features,
             target_reduction |-> target_reduction,
             result           |-> generate_cert_recommendations(features,
                                                                target_reduction)]

\* The five keys of roi_data and a type that is not a key.
ImprovementTypes == DOMAIN roi_data \cup {"Green Roof"}

\* Current emissions of a ROI call, in kilograms.
RoiEmissions == {87200, 300000} \cup {10000 * k : k \in 0..MaxEmissionsK}

CallRoi(improvement_type, current_emissions, floor_area, building_type) ==
    last' = [op               |-> "calculate_improvement_roi",
             improvement_type |-> improvement_type,
             current_emissions |-> current_emissions,
             floor_area       |-> floor_area,
             building_type    |-> building_type,
             result           |-> calculate_improvement_roi(
                                      improvement_type, current_emissions,
                                      floor_area, building_type)]

\* One call with any arguments.  The assessor keeps nothing between calls
\* (no method assigns a field), so a call on a fresh assessor is every call.
CalculateLeedEaCredits ==
    /\ last = NoCall
    /\ \E b \in Baselines : \E p \in Predictions(b) : CallLeed(p, b)
    /\ UNCHANGED <<leed_ea_points, breeam_thresholds, prev, portfolio, threads>>

EstimateBaselineEmissions ==
    /\ last = NoCall
    /\ \E a \in Areas, t \in BuildingTypes : CallBaseline(a, t)
    /\ UNCHANGED <<leed_ea_points, breeam_thresholds, prev, portfolio, threads>>

AssessBuilding ==
    /\ last = NoCall
    /\ \E a \in Areas, t \in BuildingTypes, f \in FeatureDicts :
          \E p \in Predictions(estimate_baseline_emissions(a, t)) :
              CallAssess(p, a, t, f)
    /\ UNCHANGED <<leed_ea_points, breeam_thresholds, prev, portfolio, threads>>

GenerateCertRecommendations ==
    /\ last = NoCall
    /\ \E f \in FeatureDicts, g \in Gaps : CallRecommend(f, g)
    /\ UNCHANGED <<leed_ea_points, breeam_thresholds, prev, portfolio, threads>>

\* The scenarios of a comparison: the seven branches of the page, and two
\* with a type that roi_data lacks (no option of the page selects one),
\* which show what the guard of the loop does.
Scenarios ==
    { scenario_branches[i] : i \in DOMAIN scenario_branches }
    \cup { [reduction_pct |-> 8, types |-> <<"Green Roof">>],
           [reduction_pct |-> 8, types |-> <<"Green Roof", "LED Retrofit">>] }

CompareScenario ==
    /\ last = NoCall
    /\ \E sc \in Scenarios, e \in RoiEmissions, a \in Areas, t \in BuildingTypes :
          last' = [op                 |-> "compare_scenario",
                   scenario           |-> sc,
                   baseline_emissions |-> e,
                   sc_area            |-> a,
                   sc_type            |-> t,
                   result             |-> compare_scenario(sc, e, a, t)]
    /\ UNCHANGED <<leed_ea_points, breeam_thresholds, prev, portfolio, threads>>

RoiPage ==
    /\ last = NoCall
    /\ \E i \in ImprovementTypes, e \in RoiEmissions, a \in Areas,
          t \in BuildingTypes :
          last' = [op                   |-> "roi_page",
                   selected_improvement |-> i,
                   roi_emissions        |-> e,
                   roi_area             |-> a,
                   roi_type             |-> t,
                   result               |-> roi_page(i, e, a, t)]
    /\ UNCHANGED <<leed_ea_points, breeam_thresholds, prev, portfolio, threads>>

CalculateImprovementRoi ==
    /\ last = NoCall
    /\ \E i \in ImprovementTypes, e \in RoiEmissions, a \in Areas,
          t \in BuildingTypes : CallRoi(i, e, a, t)
    /\ UNCHANGED <<leed_ea_points, breeam_thresholds, prev, portfolio, threads>>

\* The artifacts a process can have: none (the API then starts without a
\* model), or a regressor with an encoder fitted on all the labels or on
\* data without a gas furnace.
Artifacts ==
    { [loaded |-> FALSE, classes |-> {}, intensity |-> 0] }
    \cup { [loaded |-> TRUE, classes |-> c, intensity |-> i] :
             c \in {hvac_options, hvac_options \ {"Gas Furnace"}},
             i \in {2, 12} }

\* Lists of at most n elements of S.
RECURSIVE SeqsUpTo(_, _)
SeqsUpTo(S, n) ==
    IF n = 0 THEN {<<>>}
    ELSE LET shorter == SeqsUpTo(S, n - 1)
         IN  shorter \cup { Append(q, x) : q \in shorter, x \in S }

\* Buildings that pass the validation of BuildingInput.
BuildingInputs ==
    { [floor_area_sqft |-> a, hvac_type |-> h, building_type |-> "Office"] :
      a \in {8000, 15000}, h \in {"Heat Pump", "Gas Furnace"} }

\* Rows of an uploaded CSV, which nothing validates: Boiler is a label no
\* encoder knows.
CsvRows ==
    { [building_name |-> "Sample", floor_area_sqft |-> a, hvac_type |-> h,
       building_type |-> "Office", insulation_rating |-> "Good",
       renewable_pct |-> 10, led_lighting_pct |-> 60] :
      a \in {8000, 15000}, h \in {"Heat Pump", "Boiler"} }

\* POST /predict/batch.  The API and the dashboard are two processes: a
\* run is the requests of the one or the button presses of the other.
PredictBatch ==
    /\ last.op \in {"none", "predict_batch"}
    /\ \E b \in SeqsUpTo(BuildingInputs, MaxBatch), art \in Artifacts :
          \E r \in predict_batch(b, art) :
             last' = [op        |-> "predict_batch",
                      buildings |-> b,
                      artifacts |-> art,
                      result    |-> r]
    /\ UNCHANGED <<leed_ea_points, breeam_thresholds, prev, portfolio, threads>>

\* The button Analyze Portfolio with an uploaded CSV that has the required
\* columns; the dashboard runs only with its artifacts loaded.
AnalyzePortfolio ==
    /\ last.op # "predict_batch"
    /\ \E rows \in SeqsUpTo(CsvRows, MaxBatch), art \in Artifacts :
          /\ art.loaded
          /\ Len(portfolio) + Len(rows) <= MaxPortfolio
          /\ LET r == PortfolioLoop(rows, art, portfolio)
             IN  /\ portfolio' = r.portfolio
                 /\ last' = [op        |-> "analyze_portfolio",
                             rows      |-> rows,
                             artifacts |-> art,
                             before    |-> portfolio,
                             message   |-> r.message]
    /\ UNCHANGED <<leed_ea_points, breeam_thresholds, prev, threads>>

\* The button Clear Portfolio, shown for a portfolio that is not empty.
ClearPortfolio ==
    /\ last.op # "predict_batch"
    /\ portfolio # <<>>
    /\ portfolio' = <<>>
    /\ last' = [op |-> "clear_portfolio"]
    /\ UNCHANGED <<leed_ea_points, breeam_thresholds, prev, threads>>

NextBatch == PredictBatch \/ AnalyzePortfolio \/ ClearPortfolio

SpecBatch == Init /\ [][NextBatch]_vars

Next ==
    \/ CalculateLeedEaCredits
    \/ EstimateBaselineEmissions
    \/ AssessBuilding
    \/ GenerateCertRecommendations
    \/ CalculateImprovementRoi
    \/ CompareScenario
    \/ RoiPage

Spec == Init /\ [][Next]_vars

\* The buildings that are assessed repeatedly.
RepeatAreas == {0 - 200, 0, 200, 15000}

RepeatTypes == {"Office", "Healthcare", "Warehouse", "Industrial"}

\* A caller that evaluates one subject repeatedly: the same baseline with
\* another prediction, the same building type with another floor area, the
\* same building (with the example's features) with another prediction.
RepeatLeed ==
    /\ \E b \in Baselines :
          /\ last.op = "none"
             \/ (last.op = "calculate_leed_ea_credits" /\ last.baseline_emissions = b)
          /\ \E p \in Predictions(b) : CallLeed(p, b)
    /\ prev' = last
    /\ UNCHANGED <<leed_ea_points, breeam_thresholds, portfolio, threads>>

RepeatBaseline ==
    /\ \E t \in BuildingTypes :
          /\ last.op = "none"
             \/ (last.op = "estimate_baseline_emissions" /\ last.building_type = t)
          /\ \E a \in Areas : CallBaseline(a, t)
    /\ prev' = last
    /\ UNCHANGED <<leed_ea_points, breeam_thresholds, portfolio, threads>>

RepeatAssess ==
    /\ \E a \in RepeatAreas, t \in RepeatTypes :
          /\ last.op = "none"
             \/ (/\ last.op = "assess_building"
                 /\ last.floor_area = a
                 /\ last.building_type = t)
          /\ \E p \in Predictions(estimate_baseline_emissions(a, t)) :
                CallAssess(p, a, t, test_features)
    /\ prev' = last
    /\ UNCHANGED <<leed_ea_points, breeam_thresholds, portfolio, threads>>

\* Calls of calculate_improvement_roi that agree on everything but
\* building_type.
RepeatRoi ==
    /\ \E i \in ImprovementTypes, e \in RoiEmissions, a \in RepeatAreas,
          t \in RepeatTypes :
          /\ last.op = "none"
             \/ (/\ last.op = "calculate_improvement_roi"
                 /\ last.improvement_type = i
                 /\ last.current_emissions = e
                 /\ last.floor_area = a)
          /\ CallRoi(i, e, a, t)
    /\ prev' = last
    /\ UNCHANGED <<leed_ea_points, breeam_thresholds, portfolio, threads>>

NextRepeat == RepeatLeed \/ RepeatBaseline \/ RepeatAssess \/ RepeatRoi

SpecRepeat == Init /\ [][NextRepeat]_vars

-----------------------------------------------------------------------------
(* Concurrent calls of assess_building on one shared assessor.  A caller   *)
(* takes the statements of the call one at a time, and the statements of   *)
(* different callers interleave in any order.  Each statement reads        *)
(* self.leed_ea_points as it is when the statement runs; the locals of a   *)
(* call (baseline, improvement_pct, ...) belong to its caller.             *)

\* The arguments of the concurrent calls: the example building with three
\* predictions and two feature dicts, and a building without floor area.
ConcurrentCalls ==
    { [predicted_emissions |-> p, floor_area |-> 15000,
       building_type |-> "Office", current_features |-> f] :
      p \in {80000, 128000, 140000}, f \in {test_features, <<>>} }
    \cup { [predicted_emissions |-> 80000, floor_area |-> 0,
             building_type |-> "Office", current_features |-> test_features] }

\* The caller t with its record changed.
Step(t, locals) == threads' = [threads EXCEPT ![t] = locals]

\* assess_building is entered: the locals are unbound; current_features is
\* the caller's dict itself.  overlaps records that another call was under
\* way at that moment.
ThreadBegin(t) ==
    /\ threads[t].pc = "idle"
    /\ \E call \in ConcurrentCalls :
          Step(t, [pc                 |-> "estimate",
                   args               |-> call,
                   current_features   |-> call.current_features,
                   overlaps           |-> \E u \in Threads \ {t} :
                                             threads[u].pc \notin {"idle", "done"},
                   baseline           |-> None,
                   improvement_pct    |-> None,
                   earned_credits     |-> None,
                   next_level         |-> None,
                   leed               |-> None,
                   performance_rating |-> None,
                   recommendations    |-> None,
                   result             |-> None])
    /\ UNCHANGED <<leed_ea_points, breeam_thresholds, last, prev, portfolio>>

\* baseline = self.estimate_baseline_emissions(floor_area, building_type)
ThreadEstimate(t) ==
    /\ threads[t].pc = "estimate"
    /\ Step(t, [threads[t] EXCEPT
                   !.pc = "earned",
                   !.baseline = estimate_baseline_emissions(
                                    threads[t].args.floor_area,
                                    threads[t].args.building_type)])
    /\ UNCHANGED <<leed_ea_points, breeam_thresholds, last, prev, portfolio>>

\* A first loop that consumes the table: the lowest threshold is popped
\* from self.leed_ea_points once the improvement has reached it.
ThreadEarnedConsuming(t) ==
    /\ threads[t].pc = "earned"
    /\ IF threads[t].baseline = 0
       THEN /\ Step(t, [threads[t] EXCEPT
                          !.pc = "done",
                          !.result = [error |-> "ZeroDivisionError"]])
            /\ UNCHANGED leed_ea_points
       ELSE LET improvement_pct ==
                    ImprovementPct(threads[t].args.predicted_emissions,
                                   threads[t].baseline)
            IN  /\ Step(t, [threads[t] EXCEPT
                              !.pc = "next_level",
                              !.improvement_pct = improvement_pct,
                              !.earned_credits = EarnedCredits(improvement_pct)])
                /\ leed_ea_points' =
                      IF RatGeq(improvement_pct, leed_ea_points.improvement_pct[1])
                      THEN [points          |-> Tail(leed_ea_points.points),
                            improvement_pct |-> Tail(leed_ea_points.improvement_pct)]
                      ELSE leed_ea_points
    /\ UNCHANGED <<breeam_thresholds, last, prev, portfolio>>

\* improvement_pct and the first loop of calculate_leed_ea_credits; the
\* division raises for a baseline of zero, which ends the call.
ThreadEarned(t) ==
    /\ threads[t].pc = "earned"
    /\ IF threads[t].baseline = 0
       THEN Step(t, [threads[t] EXCEPT
                       !.pc = "done",
                       !.result = [error |-> "ZeroDivisionError"]])
       ELSE LET improvement_pct ==
                    ImprovementPct(threads[t].args.predicted_emissions,
                                   threads[t].baseline)
            IN  Step(t, [threads[t] EXCEPT
                           !.pc = "next_level",
                           !.improvement_pct = improvement_pct,
                           !.earned_credits = EarnedCredits(improvement_pct)])
    /\ UNCHANGED <<leed_ea_points, breeam_thresholds, last, prev, portfolio>>

\* The second loop of calculate_leed_ea_credits.
ThreadNextLevel(t) ==
    /\ threads[t].pc = "next_level"
    /\ LET i == NextLevelIndex(threads[t].improvement_pct)
       IN  Step(t, [threads[t] EXCEPT
                      !.pc = "leed_return",
                      !.next_level =
                          IF i = 0
                          THEN [next_level_pct             |-> None,
                                next_level_credits         |-> None,
                                emissions_reduction_needed |-> Rat(0, 1)]
                          ELSE [next_level_pct     |->
                                    Some(leed_ea_points.improvement_pct[i]),
                                next_level_credits |->
                                    Some(leed_ea_points.points[i]),
                                emissions_reduction_needed |->
                                    EmissionsReductionNeeded(
                                        threads[t].args.predicted_emissions,
                                        threads[t].baseline,
                                        leed_ea_points.improvement_pct[i])]])
    /\ UNCHANGED <<leed_ea_points, breeam_thresholds, last, prev, portfolio>>

\* The dict calculate_leed_ea_credits returns.
ThreadLeedReturn(t) ==
    /\ threads[t].pc = "leed_return"
    /\ \E cip \in Round1(threads[t].improvement_pct),
          ern \in ReductionReported(threads[t].next_level.emissions_reduction_needed) :
          Step(t, [threads[t] EXCEPT
                     !.pc = "rating",
                     !.leed =
                         [current_improvement_pct         |-> cip,
                          earned_credits                  |-> threads[t].earned_credits,
                          max_credits                     |-> 18,
                          next_level_credits              |->
                              threads[t].next_level.next_level_credits,
                          next_level_improvement_pct      |->
                              threads[t].next_level.next_level_pct,
                          emissions_reduction_needed_tons |-> ern,
                          certification_eligible          |->
                              (threads[t].earned_credits
                                  >= leed_ea_points.points[1])]])
    /\ UNCHANGED <<leed_ea_points, breeam_thresholds, last, prev, portfolio>>

\* emissions_per_sqft and the chain that sets performance_rating.
ThreadRating(t) ==
    /\ threads[t].pc = "rating"
    /\ IF threads[t].args.floor_area = 0
       THEN Step(t, [threads[t] EXCEPT
                       !.pc = "done",
                       !.result = [error |-> "ZeroDivisionError"]])
       ELSE Step(t, [threads[t] EXCEPT
                       !.pc = "recommend",
                       !.performance_rating =
                           PerformanceRating(threads[t].leed.earned_credits)])
    /\ UNCHANGED <<leed_ea_points, breeam_thresholds, last, prev, portfolio>>

\* recommendations = self._generate_cert_recommendations(...)
ThreadRecommend(t) ==
    /\ threads[t].pc = "recommend"
    /\ Step(t, [threads[t] EXCEPT
                   !.pc = "return",
                   !.recommendations =
                       generate_cert_recommendations(
                           threads[t].current_features,
                           threads[t].leed.emissions_reduction_needed_tons)])
    /\ UNCHANGED <<leed_ea_points, breeam_thresholds, last, prev, portfolio>>

\* The dict assess_building returns.
ThreadReturn(t) ==
    /\ threads[t].pc = "return"
    /\ \E b1 \in Round1(Tons(Rat(threads[t].baseline, 1))),
          p1 \in Round1(Tons(Rat(threads[t].args.predicted_emissions, 1))),
          e2 \in Round2(Rat(threads[t].args.predicted_emissions,
                            threads[t].args.floor_area)) :
          Step(t, [threads[t] EXCEPT
                     !.pc = "done",
                     !.result =
                         [baseline_emissions_tons     |-> b1,
                          predicted_emissions_tons    |-> p1,
                          performance_rating          |-> threads[t].performance_rating,
                          leed_assessment             |-> threads[t].leed,
                          emissions_intensity_kg_sqft |-> e2,
                          recommendations             |-> threads[t].recommendations]])
    /\ UNCHANGED <<leed_ea_points, breeam_thresholds, last, prev, portfolio>>

NextConcurrent ==
    \E t \in Threads :
        \/ ThreadBegin(t)
        \/ ThreadEstimate(t)
        \/ ThreadEarned(t)
        \/ ThreadNextLevel(t)
        \/ ThreadLeedReturn(t)
        \/ ThreadRating(t)
        \/ ThreadRecommend(t)
        \/ ThreadReturn(t)

SpecConcurrent == Init /\ [][NextConcurrent]_vars

TypeOK ==
    /\ leed_ea_points = LeedEaPointsTable
    /\ last.op \in {"none", "calculate_leed_ea_credits",
                     "estimate_baseline_emissions", "assess_building",
                     "_generate_cert_recommendations",
                     "calculate_improvement_roi", "compare_scenario",
                     "roi_page", "predict_batch", "analyze_portfolio",
                     "clear_portfolio"}
    /\ breeam_thresholds = BreeamThresholdsTable
    /\ Len(portfolio) <= MaxPortfolio

-----------------------------------------------------------------------------
(* What a state shows of calculate_leed_ea_credits: the direct call, or    *)
(* the call assess_building made with the baseline it estimated.           *)

LeedRuns(call) ==
    IF call.op = "calculate_leed_ea_credits"
    THEN { [p |-> call.predicted_emissions, b |-> call.baseline_emissions,
            r |-> call.result] }
    ELSE IF call.op = "assess_building" /\ ~Raised(call.result)
    THEN { [p |-> call.predicted_emissions,
            b |-> estimate_baseline_emissions(call.floor_area, call.building_type),
            r |-> call.result.leed_assessment] }
    ELSE {}

\* The tier table as the claims state it.
TierThreshold == <<2, 4, 6, 10, 14, 18, 22, 26, 30, 34, 36>>

TierPoints == <<1, 2, 3, 5, 7, 9, 11, 13, 15, 17, 18>>

\* improvement_pct >= k and improvement_pct < k for the run's exact
\* improvement (baseline - predicted) / baseline * 100, baseline > 0.
ImprovementAtLeast(run, k) == (run.b - run.p) * 100 >= k * run.b

ImprovementBelow(run, k) == (run.b - run.p) * 100 < k * run.b

\* C1: for baseline > 0, an improvement_pct in [threshold[i], threshold[i+1])
\* (no upper bound for the last entry) earns exactly points[i]; the lower
\* bound is inclusive.
C1_TierOfInterval ==
    \A run \in LeedRuns(last) :
        run.b > 0 =>
            \A i \in 1..Len(TierThreshold) :
                ( /\ ImprovementAtLeast(run, TierThreshold[i])
                  /\ (i = Len(TierThreshold)
                      \/ ImprovementBelow(run, TierThreshold[i + 1])) )
                => run.r.earned_credits = TierPoints[i]

\* An improvement of exactly 10 % has earned the 5 credits of the 10 % tier.
C1_Witness ==
    \E run \in LeedRuns(last) :
        /\ run.b > 0
        /\ (run.b - run.p) * 100 = 10 * run.b
        /\ run.r.earned_credits = 5

\* C2: for a fixed baseline > 0, a larger prediction never earns more
\* credits: predicted1 <= predicted2 gives
\* earned_credits(predicted2) <= earned_credits(predicted1).
C2_CreditsMonotonic ==
    \A run1 \in LeedRuns(prev), run2 \in LeedRuns(last) :
        (run1.b = run2.b /\ run1.b > 0) =>
            /\ run1.p <= run2.p => run2.r.earned_credits <= run1.r.earned_credits
            /\ run2.p <= run1.p => run1.r.earned_credits <= run2.r.earned_credits

\* Two evaluations against one baseline where the larger prediction has
\* earned strictly fewer credits.
C2_Witness ==
    \E run1 \in LeedRuns(prev), run2 \in LeedRuns(last) :
        /\ run1.b = run2.b /\ run1.b > 0
        /\ run1.p < run2.p
        /\ run2.r.earned_credits < run1.r.earned_credits

\* C3 as stated: for predicted > baseline > 0 the call returns with
\* earned_credits = 0, the next tier is the first entry (2 %, 1 credit) and
\* the reported emissions_reduction_needed_tons is strictly positive.
C3_AsStated ==
    \A run \in LeedRuns(last) :
        (run.p > run.b /\ run.b > 0) =>
            /\ run.r.earned_credits = 0
            /\ run.r.next_level_improvement_pct = Some(2)
            /\ run.r.next_level_credits = Some(1)
            /\ run.r.emissions_reduction_needed_tons > 0

\* C3 amended: for predicted > baseline > 0 the call returns with
\* earned_credits = 0 and the next tier (2 %, 1 credit); the reported
\* emissions_reduction_needed_tons is predicted - 0.98 * baseline rounded to
\* one decimal of a ton, so it is never negative and it is strictly positive
\* whenever that reduction exceeds 0.05 tons.  (reported is in tenths of a
\* ton, needed in hundredths of a kilogram.)
C3_WorseThanBaseline ==
    \A run \in LeedRuns(last) :
        (run.p > run.b /\ run.b > 0) =>
            LET reported == run.r.emissions_reduction_needed_tons
                needed == 100 * run.p - 98 * run.b
            IN  /\ run.r.earned_credits = 0
                /\ run.r.next_level_improvement_pct = Some(2)
                /\ run.r.next_level_credits = Some(1)
                /\ reported >= 0
                /\ reported * 10000 - needed <= 5000
                /\ needed - reported * 10000 <= 5000
                /\ needed > 5000 => reported > 0

\* The scenario predicted = 200 t, baseline = 126.2 t: 76.3 t are needed.
C3_Witness ==
    \E run \in LeedRuns(last) :
        /\ run.p = 200000 /\ run.b = 126200
        /\ run.r.earned_credits = 0
        /\ run.r.emissions_reduction_needed_tons = 763

\* C4: the next tier is the first table entry whose threshold is strictly
\* above improvement_pct (at an exact threshold, the following entry), and
\* next_level_credits and next_level_improvement_pct are both None exactly
\* when improvement_pct >= 36.
C4_NextTier ==
    \A run \in LeedRuns(last) :
        run.b > 0 =>
            /\ (run.r.next_level_improvement_pct = None) <=> ImprovementAtLeast(run, 36)
            /\ (run.r.next_level_credits = None) <=> ImprovementAtLeast(run, 36)
            /\ ~ImprovementAtLeast(run, 36) =>
                   \E i \in 1..Len(TierThreshold) :
                       /\ run.r.next_level_improvement_pct = Some(TierThreshold[i])
                       /\ run.r.next_level_credits = Some(TierPoints[i])
                       /\ ImprovementBelow(run, TierThreshold[i])
                       /\ \A j \in 1..(i - 1) :
                              ImprovementAtLeast(run, TierThreshold[j])

\* At an improvement of exactly 10 % the next tier is the 14 % entry.
C4_Witness ==
    \E run \in LeedRuns(last) :
        /\ run.b > 0
        /\ (run.b - run.p) * 100 = 10 * run.b
        /\ run.r.next_level_improvement_pct = Some(14)
        /\ run.r.next_level_credits = Some(7)

\* C5: with a next tier the reported emissions_reduction_needed_tons is
\* predicted - baseline * (1 - next_threshold / 100) rounded to one decimal
\* and never negative, for any prediction and any baseline > 0; without a
\* next tier it is 0.
C5_ReductionNeeded ==
    \A run \in LeedRuns(last) :
        run.b > 0 =>
            LET reported == run.r.emissions_reduction_needed_tons
                next == run.r.next_level_improvement_pct
                needed == 100 * run.p - run.b * (100 - next[1])
            IN  /\ reported >= 0
                /\ next = None => reported = 0
                /\ next # None =>
                       /\ reported * 10000 - needed <= 5000
                       /\ needed - reported * 10000 <= 5000

\* A building better than its baseline that still needs a positive
\* reduction for its next tier.
C5_Witness ==
    \E run \in LeedRuns(last) :
        /\ run.b > 0 /\ run.p < run.b
        /\ run.r.next_level_improvement_pct # None
        /\ run.r.emissions_reduction_needed_tons > 0

\* The run of the example: 15000 sq ft, Office, 87.2 t predicted.
ExampleRun(call) ==
    /\ call.op = "assess_building"
    /\ call.floor_area = 15000
    /\ call.building_type = "Office"
    /\ call.predicted_emissions = 87200

\* C6 as stated: the example (area 15000, Office, predicted 87.2, an
\* improvement of about 30.9 %) earns 17 credits.
C6_AsStated ==
    ExampleRun(last) =>
        /\ ~Raised(last.result)
        /\ last.result.leed_assessment.earned_credits = 17

\* C6 amended: the example earns 15 credits, the points of the 30 % entry
\* (17 belongs to the 34 % entry).
C6_ExampleCredits ==
    ExampleRun(last) =>
        /\ ~Raised(last.result)
        /\ last.result.leed_assessment.earned_credits = 15

\* The example has been assessed against its baseline of 126.15 t
\* (reported as 126.1 or 126.2) with an improvement of 30.9 %.
C6_Witness ==
    /\ ExampleRun(last)
    /\ ~Raised(last.result)
    /\ last.result.baseline_emissions_tons \in {1261, 1262}
    /\ last.result.leed_assessment.current_improvement_pct = 309

\* C7: a building exactly at its baseline (predicted = baseline > 0) has
\* improvement_pct = 0 and earned_credits = 0.
C7_AtBaseline ==
    \A run \in LeedRuns(last) :
        (run.p = run.b /\ run.b > 0) =>
            /\ ImprovementPct(run.p, run.b).num = 0
            /\ run.r.current_improvement_pct = 0
            /\ run.r.earned_credits = 0

\* A building at its baseline has been evaluated.
C7_Witness ==
    \E run \in LeedRuns(last) :
        /\ run.p = run.b /\ run.b > 0
        /\ run.r.earned_credits = 0
        /\ run.r.next_level_credits = Some(1)

\* The five bands as the claim states them.
RatingBand(credits) ==
    IF credits \in 13..18 THEN "Exceptional"
    ELSE IF credits \in 7..12 THEN "High Performance"
    ELSE IF credits \in 3..6 THEN "Above Average"
    ELSE IF credits \in 1..2 THEN "Slightly Above Baseline"
    ELSE "Below Baseline"

\* C8: the performance rating is a total function of earned_credits over
\* 0..18 with five bands: >= 13 Exceptional, 7..12 High Performance,
\* 3..6 Above Average, 1..2 Slightly Above Baseline, 0 Below Baseline; every
\* returned assessment carries the band of its earned_credits.
C8_RatingBands ==
    /\ \A credits \in 0..18 : PerformanceRating(credits) = RatingBand(credits)
    /\ (last.op = "assess_building" /\ ~Raised(last.result)) =>
           /\ last.result.leed_assessment.earned_credits \in 0..18
           /\ last.result.performance_rating =
                  RatingBand(last.result.leed_assessment.earned_credits)

\* An assessment at the lower edge of the top band: 13 credits, Exceptional.
C8_Witness ==
    /\ last.op = "assess_building"
    /\ ~Raised(last.result)
    /\ last.result.leed_assessment.earned_credits = 13
    /\ last.result.performance_rating = "Exceptional"

\* The ordinal of a rating.
Rank(rating) ==
    CASE rating = "Below Baseline" -> 0
      [] rating = "Slightly Above Baseline" -> 1
      [] rating = "Above Average" -> 2
      [] rating = "High Performance" -> 3
      [] rating = "Exceptional" -> 4

\* Two assessments of one building with a positive floor area.
SameBuilding(call1, call2) ==
    /\ call1.op = "assess_building" /\ call2.op = "assess_building"
    /\ ~Raised(call1.result) /\ ~Raised(call2.result)
    /\ call1.floor_area = call2.floor_area
    /\ call1.building_type = call2.building_type
    /\ call1.floor_area > 0

\* C9: the rating is non-decreasing in earned_credits under the order
\* Below Baseline < Slightly Above Baseline < Above Average <
\* High Performance < Exceptional; so for a fixed floor area (> 0) and
\* building type a larger prediction never gets a higher rating from
\* assess_building.
C9_RatingMonotonic ==
    /\ \A c1 \in 0..18, c2 \in 0..18 :
           c1 <= c2 => Rank(PerformanceRating(c1)) <= Rank(PerformanceRating(c2))
    /\ SameBuilding(prev, last) =>
           /\ prev.predicted_emissions <= last.predicted_emissions =>
                  Rank(last.result.performance_rating)
                      <= Rank(prev.result.performance_rating)
           /\ last.predicted_emissions <= prev.predicted_emissions =>
                  Rank(prev.result.performance_rating)
                      <= Rank(last.result.performance_rating)

\* One building assessed twice, the larger prediction rated strictly lower.
C9_Witness ==
    /\ SameBuilding(prev, last)
    /\ prev.predicted_emissions < last.predicted_emissions
    /\ Rank(last.result.performance_rating) < Rank(prev.result.performance_rating)

\* The EUI table as the claim's formula uses it, 60 for any other type.
ClaimEui(building_type) ==
    CASE building_type = "Office" -> 58
      [] building_type = "Retail" -> 52
      [] building_type = "Healthcare" -> 215
      [] building_type = "Educational" -> 70
      [] building_type = "Warehouse" -> 32
      [] building_type = "Multi-Family" -> 46
      [] building_type = "Hotel" -> 88
      [] OTHER -> 60

\* C10: for every building type and floor_area > 0 the baseline is strictly
\* positive and equals floor_area * EUI * 0.145 / 1000 tons (here: 1000 times
\* the kilograms equal floor_area * EUI * 145), and for a fixed type it is
\* strictly increasing in floor_area.
C10_Baseline ==
    /\ (last.op = "estimate_baseline_emissions" /\ last.floor_area > 0) =>
           /\ last.result > 0
           /\ last.result * 1000 =
                  last.floor_area * ClaimEui(last.building_type) * 145
    /\ ( /\ prev.op = "estimate_baseline_emissions"
          /\ last.op = "estimate_baseline_emissions"
          /\ prev.building_type = last.building_type
          /\ prev.floor_area > 0 /\ last.floor_area > 0 ) =>
           /\ prev.floor_area < last.floor_area => prev.result < last.result
           /\ last.floor_area < prev.floor_area => last.result < prev.result

\* Two baselines of one building type, the larger area after the smaller.
C10_Witness ==
    /\ prev.op = "estimate_baseline_emissions"
    /\ last.op = "estimate_baseline_emissions"
    /\ prev.building_type = last.building_type
    /\ 0 < prev.floor_area /\ prev.floor_area < last.floor_area
    /\ 0 < prev.result /\ prev.result < last.result

\* C11: estimate_baseline_emissions with a building type that is not one of
\* the seven keys of the table does not fail; it returns the baseline of the
\* default EUI 60 (1000 times the kilograms equal floor_area * 60 * 145).
C11_DefaultEui ==
    ( /\ last.op = "estimate_baseline_emissions"
      /\ last.building_type \notin {"Office", "Retail", "Healthcare", "Educational",
                                     "Warehouse", "Multi-Family", "Hotel"} ) =>
        last.result * 1000 = last.floor_area * 60 * 145

\* The baseline of 200 sq ft of a type outside the table: 1.74 t.
C11_Witness ==
    /\ last.op = "estimate_baseline_emissions"
    /\ last.building_type = "Industrial"
    /\ last.floor_area = 200
    /\ last.result = 1740

-----------------------------------------------------------------------------
(* What a state shows of _generate_cert_recommendations: the direct call,  *)
(* or the call assess_building made with the reduction it reported.        *)

RecRuns(call) ==
    IF call.op = "_generate_cert_recommendations"
    THEN { [f |-> call.features, gap |-> call.target_reduction,
            recs |-> call.result] }
    ELSE IF call.op = "assess_building" /\ ~Raised(call.result)
    THEN { [f |-> call.current_features,
            gap |-> call.result.leed_assessment.emissions_reduction_needed_tons,
            recs |-> call.result.recommendations] }
    ELSE {}

\* A features dict with all four keys.
FullFeatures(f) ==
    DOMAIN f = {"renewable_pct", "hvac_type", "insulation_rating", "led_lighting_pct"}

\* The recommendation of a category is in the list.
Recommends(recs, category) ==
    \E i \in 1..Len(recs) : recs[i].category = category

\* The impact of a category as a share of the gap: tenths of a ton times
\* 100 * share give kilograms.
ShareOf(category) ==
    CASE category = "Renewable Energy" -> 30
      [] category = "HVAC Efficiency" -> 25
      [] category = "Building Envelope" -> 20
      [] category = "Lighting Systems" -> 10

\* The position of a category in the order the rules are evaluated.
RuleOrder(category) ==
    CASE category = "Renewable Energy" -> 1
      [] category = "HVAC Efficiency" -> 2
      [] category = "Building Envelope" -> 3
      [] category = "Lighting Systems" -> 4

\* C12: each of the four rules fires exactly when its own condition holds
\* (renewable_pct < 30; hvac_type Gas Furnace or Electric Baseboard;
\* insulation Poor or Fair; led pct < 90), whatever the gap and the other
\* rules; a fired rule gives one recommendation, with impact 0.30, 0.25,
\* 0.20 or 0.10 times the gap, and no category appears twice.
C12_IndependentRules ==
    \A run \in RecRuns(last) :
        FullFeatures(run.f) =>
            /\ Recommends(run.recs, "Renewable Energy") <=> run.f["renewable_pct"] < 30
            /\ Recommends(run.recs, "HVAC Efficiency")
                   <=> run.f["hvac_type"] \in {"Gas Furnace", "Electric Baseboard"}
            /\ Recommends(run.recs, "Building Envelope")
                   <=> run.f["insulation_rating"] \in {"Poor", "Fair"}
            /\ Recommends(run.recs, "Lighting Systems") <=> run.f["led_lighting_pct"] < 90
            /\ Len(run.recs) <= 4
            /\ \A i \in 1..Len(run.recs) :
                   /\ run.recs[i].category \in
                          {"Renewable Energy", "HVAC Efficiency",
                           "Building Envelope", "Lighting Systems"}
                   /\ run.recs[i].estimated_impact_tons =
                          ShareOf(run.recs[i].category) * run.gap
                   /\ \A j \in 1..Len(run.recs) :
                          run.recs[i].category = run.recs[j].category => i = j

\* Only the HVAC and the lighting rule have fired, for a positive gap.
C12_Witness ==
    \E run \in RecRuns(last) :
        /\ FullFeatures(run.f)
        /\ run.f["renewable_pct"] = 30 /\ run.f["insulation_rating"] = "Good"
        /\ run.gap > 0
        /\ Len(run.recs) = 2
        /\ run.recs[1].category = "HVAC Efficiency"
        /\ run.recs[2].category = "Lighting Systems"

\* C13: the returned list is ordered by estimated impact descending, and
\* recommendations of equal impact keep the order of the rules (renewable,
\* HVAC, envelope, lighting); for renewable_pct 10, Gas Furnace, Fair,
\* led 60 and a gap of 30 t the list is renewable (9.0), HVAC (7.5),
\* envelope (6.0), lighting (3.0).
C13_SortedByImpact ==
    \A run \in RecRuns(last) :
        /\ \A i \in 1..Len(run.recs), j \in 1..Len(run.recs) :
               i < j =>
                   /\ run.recs[i].estimated_impact_tons
                          >= run.recs[j].estimated_impact_tons
                   /\ run.recs[i].estimated_impact_tons
                          = run.recs[j].estimated_impact_tons
                      => RuleOrder(run.recs[i].category)
                             < RuleOrder(run.recs[j].category)
        /\ (run.f = test_features /\ run.gap = 300) =>
               /\ Len(run.recs) = 4
               /\ run.recs[1].category = "Renewable Energy"
               /\ run.recs[1].estimated_impact_tons = 9000
               /\ run.recs[2].category = "HVAC Efficiency"
               /\ run.recs[2].estimated_impact_tons = 7500
               /\ run.recs[3].category = "Building Envelope"
               /\ run.recs[3].estimated_impact_tons = 6000
               /\ run.recs[4].category = "Lighting Systems"
               /\ run.recs[4].estimated_impact_tons = 3000

\* The example's features with a gap of 30 t have given four
\* recommendations.
C13_Witness ==
    \E run \in RecRuns(last) :
        /\ run.f = test_features
        /\ run.gap = 300
        /\ Len(run.recs) = 4

-----------------------------------------------------------------------------
(* Claims about calculate_improvement_roi.                                 *)

\* A call with one of the five known types that returned a dict.
RoiReturned(call) ==
    /\ call.op = "calculate_improvement_roi"
    /\ call.improvement_type \in DOMAIN roi_data
    /\ ~Raised(call.result)

\* C14: for each of the five known types the result has
\* initial_cost = floor_area * cost_per_sqft,
\* emissions_reduction = current_emissions * reduction_pct / 100,
\* annual_savings = emissions_reduction * annual_savings_per_ton,
\* roi_N = ((annual_savings * N - initial_cost) / initial_cost) * 100 for
\* N = 5 and 10 (stated as roi_N * initial_cost =
\* (annual_savings * N - initial_cost) * 100), and the payback constant of
\* the type.
C14_RoiFormulas ==
    RoiReturned(last) =>
        LET data == roi_data[last.improvement_type]
            r == last.result
        IN  /\ r.initial_cost = QMul(QInt(last.floor_area), data.cost_per_sqft)
            /\ QMul(r.emissions_reduction_tons, QInt(100000)) =
                   QInt(last.current_emissions * data.reduction_pct)
            /\ r.annual_cost_savings =
                   QMul(r.emissions_reduction_tons, QInt(data.annual_savings_per_ton))
            /\ QMul(r.roi_5_year, r.initial_cost) =
                   QMul(QSub(QMul(r.annual_cost_savings, QInt(5)), r.initial_cost),
                        QInt(100))
            /\ QMul(r.roi_10_year, r.initial_cost) =
                   QMul(QSub(QMul(r.annual_cost_savings, QInt(10)), r.initial_cost),
                        QInt(100))
            /\ r.payback_period_years = data.payback_years

\* Solar on 15000 sq ft at 87.2 t: cost 127500, 21.8 t reduced, 1090 saved
\* a year.
C14_Witness ==
    /\ RoiReturned(last)
    /\ last.improvement_type = "Renewable Energy (Solar)"
    /\ last.floor_area = 15000
    /\ last.current_emissions = 87200
    /\ last.result.initial_cost = QInt(127500)
    /\ last.result.emissions_reduction_tons = Q(218, 10)
    /\ last.result.annual_cost_savings = QInt(1090)

\* C15: for a known type, floor_area > 0 and annual_savings > 0 the
\* roi_10_year is strictly greater than the roi_5_year.
C15_RoiTenAboveFive ==
    ( /\ RoiReturned(last)
      /\ last.floor_area > 0
      /\ QLt(QInt(0), last.result.annual_cost_savings) ) =>
        QLt(last.result.roi_5_year, last.result.roi_10_year)

\* A result with positive savings whose ROI is negative after five years and
\* after ten.
C15_Witness ==
    /\ RoiReturned(last)
    /\ last.floor_area > 0
    /\ QLt(QInt(0), last.result.annual_cost_savings)
    /\ QLt(last.result.roi_5_year, last.result.roi_10_year)
    /\ QLt(last.result.roi_10_year, QInt(0))

\* C17: for a known type and floor_area = 0 (initial_cost = 0) the call
\* fails with a ZeroDivisionError and returns no result.
C17_ZeroCostRaises ==
    ( /\ last.op = "calculate_improvement_roi"
      /\ last.improvement_type \in DOMAIN roi_data
      /\ last.floor_area = 0 ) =>
        /\ Raised(last.result)
        /\ last.result.error = "ZeroDivisionError"

\* A known type has been evaluated for a floor area of 0.
C17_Witness ==
    /\ last.op = "calculate_improvement_roi"
    /\ last.improvement_type = "LED Retrofit"
    /\ last.floor_area = 0
    /\ last.current_emissions > 0
    /\ Raised(last.result)

\* The cost of the known types of a list for a floor area.
RECURSIVE KnownCost(_, _)
KnownCost(types, floor_area) ==
    IF types = <<>> THEN QInt(0)
    ELSE IF Head(types) \in DOMAIN roi_data
         THEN QAdd(QMul(QInt(floor_area), roi_data[Head(types)].cost_per_sqft),
                   KnownCost(Tail(types), floor_area))
         ELSE KnownCost(Tail(types), floor_area)

\* C16: with an improvement type outside the five known ones
\* calculate_improvement_roi returns None and never raises, for any
\* emissions and any area, 0 included; its callers skip that value without
\* failing: the scenario loop adds only the known types of its list (and
\* does not fail for a non-zero area), the ROI page shows nothing.
C16_UnknownTypeIsNone ==
    /\ ( /\ last.op = "calculate_improvement_roi"
          /\ last.improvement_type \notin
                 {"Renewable Energy (Solar)", "HVAC Upgrade (Heat Pump)",
                  "Insulation Upgrade", "LED Retrofit", "Building Envelope"} ) =>
           last.result = NoResult
    /\ (last.op = "compare_scenario" /\ last.sc_area # 0) =>
           /\ ~Raised(last.result)
           /\ last.result.cost = KnownCost(last.scenario.types, last.sc_area)
    /\ ( /\ last.op = "compare_scenario"
          /\ \A i \in DOMAIN last.scenario.types :
                 last.scenario.types[i] \notin DOMAIN roi_data ) =>
           /\ ~Raised(last.result)
           /\ last.result.cost = QInt(0)
           /\ last.result.savings = QInt(0)
    /\ (last.op = "roi_page" /\ last.selected_improvement \notin DOMAIN roi_data) =>
           /\ ~Raised(last.result)
           /\ ~last.result.shown

\* A scenario whose list has an unknown and a known type: only the LED
\* retrofit of 15000 sq ft is counted.
C16_Witness ==
    /\ last.op = "compare_scenario"
    /\ last.scenario.types = <<"Green Roof", "LED Retrofit">>
    /\ last.sc_area = 15000
    /\ ~Raised(last.result)
    /\ last.result.cost = QInt(18000)

\* C18: two calls of calculate_improvement_roi that agree on
\* improvement_type, current_emissions and floor_area and differ in
\* building_type return identical results (the same dict, None both times,
\* or the same exception).
C18_BuildingTypeIgnored ==
    ( /\ prev.op = "calculate_improvement_roi"
      /\ last.op = "calculate_improvement_roi"
      /\ prev.improvement_type = last.improvement_type
      /\ prev.current_emissions = last.current_emissions
      /\ prev.floor_area = last.floor_area
      /\ prev.building_type # last.building_type ) =>
        prev.result = last.result

\* An office and a hospital of 15000 sq ft and 300 tons with the same heat
\* pump upgrade, both with a result.
C18_Witness ==
    /\ prev.op = "calculate_improvement_roi"
    /\ last.op = "calculate_improvement_roi"
    /\ prev.improvement_type = "HVAC Upgrade (Heat Pump)"
    /\ last.improvement_type = "HVAC Upgrade (Heat Pump)"
    /\ prev.current_emissions = 300000
    /\ last.current_emissions = 300000
    /\ prev.floor_area = 15000
    /\ last.floor_area = 15000
    /\ prev.building_type = "Office"
    /\ last.building_type = "Healthcare"
    /\ ~Raised(last.result)
    /\ ~IsNone(last.result)
    /\ last.result.initial_cost = QInt(180000)

\* An entry of the list predict_batch returns is the marker of a failure.
IsMarker(entry) == DOMAIN entry = {"error"}

\* C19: in a batch every input building ends with its result or with a
\* per-item error marker and a failing building does not stop the ones
\* after it.  In POST /predict/batch with a model, entry k is the marker
\* exactly when building k fails; in the portfolio analysis every row of
\* the CSV is appended to the portfolio.
C19_BatchToleratesFailure ==
    /\ (last.op = "predict_batch" /\ last.artifacts.loaded) =>
           /\ ~Raised(last.result)
           /\ Len(last.result.predictions) = Len(last.buildings)
           /\ \A k \in DOMAIN last.buildings :
                 IsMarker(last.result.predictions[k]) <=>
                    Raised(model_predict(last.buildings[k], last.artifacts))
    /\ last.op = "analyze_portfolio" =>
           Len(portfolio) = Len(last.before) + Len(last.rows)

\* The part of C19 that holds, the API endpoint: one entry per building,
\* the marker exactly for the buildings whose prediction fails.
C19_ApiToleratesFailure ==
    (last.op = "predict_batch" /\ last.artifacts.loaded) =>
        /\ ~Raised(last.result)
        /\ Len(last.result.predictions) = Len(last.buildings)
        /\ \A k \in DOMAIN last.buildings :
              IsMarker(last.result.predictions[k]) <=>
                 Raised(model_predict(last.buildings[k], last.artifacts))

\* A batch whose first building fails and whose second has its prediction.
C19_Witness ==
    /\ last.op = "predict_batch"
    /\ Len(last.buildings) = 2
    /\ ~Raised(last.result)
    /\ IsMarker(last.result.predictions[1])
    /\ ~IsMarker(last.result.predictions[2])

\* C20: assess_building and its helpers leave the tables of the assessor
\* and the caller's features dict as they were, and in every interleaving
\* of concurrent calls on one assessor each call returns an outcome it
\* returns when it runs alone.
C20_CallsIndependent ==
    /\ leed_ea_points = LeedEaPointsTable
    /\ breeam_thresholds = BreeamThresholdsTable
    /\ \A t \in Threads :
          threads[t].pc # "idle" =>
             threads[t].current_features = threads[t].args.current_features
    /\ \A t \in Threads :
          threads[t].pc = "done" =>
             threads[t].result \in
                 assess_building(threads[t].args.predicted_emissions,
                                 threads[t].args.floor_area,
                                 threads[t].args.building_type,
                                 threads[t].args.current_features)

\* Two overlapping calls with different predictions have both returned
\* their assessments: 18 credits for 80 tons, none for 140 tons.
C20_Witness ==
    /\ threads[1].pc = "done"
    /\ threads[2].pc = "done"
    /\ threads[2].overlaps
    /\ threads[1].args.predicted_emissions = 80000
    /\ threads[2].args.predicted_emissions = 140000
    /\ threads[1].args.floor_area = 15000
    /\ ~Raised(threads[1].result)
    /\ ~Raised(threads[2].result)
    /\ threads[1].result.leed_assessment.earned_credits = 18
    /\ threads[2].result.leed_assessment.earned_credits = 0

\* C21: an assessment requested with floor_area <= 0 fails with an error
\* and estimate_baseline_emissions never returns a baseline <= 0: every
\* baseline returned is positive, and assess_building raises for a floor
\* area that is zero or negative.
C21_NonPositiveAreaFails ==
    /\ last.op = "estimate_baseline_emissions" => last.result > 0
    /\ (last.op = "assess_building" /\ last.floor_area <= 0) =>
           Raised(last.result)

\* An assessment of a building of -200 sq ft that assess_building returns:
\* the baseline is negative and every tier is earned.
C21_NegativeAreaAssessed ==
    /\ last.op = "assess_building"
    /\ last.floor_area = 0 - 200
    /\ ~Raised(last.result)
    /\ last.result.leed_assessment.earned_credits = 18

\* C22: for a known type, current_emissions > 0 and floor_area > 0 the
\* reported payback period is the number of years after which the annual
\* savings add up to the cost:
\* payback_period_years * annual_cost_savings = initial_cost.
C22_PaybackRepaysCost ==
    ( /\ RoiReturned(last)
      /\ last.current_emissions > 0
      /\ last.floor_area > 0 ) =>
        QMul(last.result.payback_period_years, last.result.annual_cost_savings)
            = last.result.initial_cost

-----------------------------------------------------------------------------
(* Claims about the composition of assess_building.                        *)

\* C23: assess_building composes its components in order: the tier result
\* is calculate_leed_ea_credits(predicted, baseline) for the unrounded
\* baseline = estimate_baseline_emissions(area, category), the
\* performance_rating is the band of that result's earned_credits, and the
\* recommendations are those of the given features for a gap equal to that
\* result's reported emissions_reduction_needed_tons.
C23_ComposedInOrder ==
    (last.op = "assess_building" /\ ~Raised(last.result)) =>
        LET baseline == estimate_baseline_emissions(last.floor_area,
                                                    last.building_type)
            leed == last.result.leed_assessment
        IN  /\ leed \in calculate_leed_ea_credits(last.predicted_emissions, baseline)
            /\ last.result.performance_rating = RatingBand(leed.earned_credits)
            /\ last.result.recommendations =
                  generate_cert_recommendations(
                      last.current_features,
                      leed.emissions_reduction_needed_tons)

\* An office of 200 sq ft, whose baseline of 1.682 t is reported as 1.7 t,
\* assessed below the first tier with recommendations for a positive gap.
C23_Witness ==
    /\ last.op = "assess_building"
    /\ last.floor_area = 200
    /\ last.building_type = "Office"
    /\ ~Raised(last.result)
    /\ last.result.baseline_emissions_tons = 17
    /\ last.result.leed_assessment.emissions_reduction_needed_tons > 0
    /\ last.result.recommendations # <<>>

-----------------------------------------------------------------------------
(* Claims about the tier table and the tier result.                        *)

\* A list of numbers is strictly increasing.
StrictlyIncreasing(list) ==
    \A i \in 1..(Len(list) - 1) : list[i] < list[i + 1]

\* C24: the tier table is well-formed and read-only: points and
\* improvement_pct have the same length, both are strictly increasing, the
\* lowest threshold is positive, the highest points value is the
\* max_credits every tier result reports (18), and the table of the
\* assessor is the one __init__ built, whatever calls were made.
C24_TableWellFormed ==
    /\ Len(leed_ea_points.points) = Len(leed_ea_points.improvement_pct)
    /\ StrictlyIncreasing(leed_ea_points.points)
    /\ StrictlyIncreasing(leed_ea_points.improvement_pct)
    /\ leed_ea_points.improvement_pct[1] > 0
    /\ leed_ea_points.points[Len(leed_ea_points.points)] = 18
    /\ \A run \in LeedRuns(last) :
          run.r.max_credits = leed_ea_points.points[Len(leed_ea_points.points)]
    /\ leed_ea_points = LeedEaPointsTable

\* A call that earned the highest points value has been made.
C24_Witness ==
    /\ last.op = "calculate_leed_ea_credits"
    /\ last.result.earned_credits = 18
    /\ last.result.max_credits = 18

\* The points of the highest threshold that is <= (or <) a percentage given
\* in tenths, 0 when there is none.
RECURSIVE TierUpTo(_, _, _)
TierUpTo(tenths, strict, i) ==
    IF i = 0 THEN 0
    ELSE IF (IF strict THEN 10 * TierThreshold[i] < tenths
             ELSE 10 * TierThreshold[i] <= tenths)
         THEN TierPoints[i]
         ELSE TierUpTo(tenths, strict, i - 1)

TierOfReported(tenths) == TierUpTo(tenths, FALSE, Len(TierThreshold))

TierBelowReported(tenths) == TierUpTo(tenths, TRUE, Len(TierThreshold))

\* C25 as stated: for baseline > 0, earned_credits is the points of the
\* highest threshold <= the reported current_improvement_pct (0 if none) and
\* a next_level_improvement_pct that is present is strictly greater than
\* the reported current_improvement_pct.
C25_AsStated ==
    \A run \in LeedRuns(last) :
        run.b > 0 =>
            /\ run.r.earned_credits = TierOfReported(run.r.current_improvement_pct)
            /\ run.r.next_level_improvement_pct # None =>
                  10 * run.r.next_level_improvement_pct[1]
                      > run.r.current_improvement_pct

\* C25 amended: for baseline > 0 the reported current_improvement_pct is
\* within 0.05 of the improvement the tier was computed from, so that
\* earned_credits is the points of the highest threshold <= the reported
\* value, except when the reported value is exactly a threshold the
\* improvement stayed below (by less than 0.05): then earned_credits is the
\* tier under that threshold and next_level_improvement_pct equals the
\* reported value.  A next_level_improvement_pct that is present is never
\* below the reported value.
C25_ReportedConsistent ==
    \A run \in LeedRuns(last) :
        run.b > 0 =>
            LET reported == run.r.current_improvement_pct
                next == run.r.next_level_improvement_pct
                off == reported * run.b - 1000 * (run.b - run.p)
            IN  /\ 2 * off <= run.b
                /\ 0 - 2 * off <= run.b
                /\ \/ run.r.earned_credits = TierOfReported(reported)
                   \/ /\ run.r.earned_credits = TierBelowReported(reported)
                      /\ next = Some(reported \div 10)
                      /\ reported % 10 = 0
                      /\ off > 0
                /\ next # None => 10 * next[1] >= reported

\* An improvement just under 2 % is reported as 2.0 with no credit earned
\* and the next tier at 2 %.
C25_Witness ==
    \E run \in LeedRuns(last) :
        /\ run.b > 0
        /\ ImprovementBelow(run, 2)
        /\ run.r.current_improvement_pct = 20
        /\ run.r.earned_credits = 0
        /\ run.r.next_level_improvement_pct = Some(2)

\* C26: in every tier result earned_credits is 0 or a value of the points
\* table and at most max_credits; a next tier that is present is the table
\* entry right after the earned one (the first entry when earned_credits is
\* 0), so next_level_credits > earned_credits; and the next tier is absent
\* exactly when earned_credits = 18.
C26_NextFollowsEarned ==
    \A run \in LeedRuns(last) :
        LET earned == run.r.earned_credits
            next == run.r.next_level_credits
        IN  /\ earned \in {0} \cup { TierPoints[i] : i \in DOMAIN TierPoints }
            /\ earned <= run.r.max_credits
            /\ next # None =>
                  /\ \E i \in DOMAIN TierPoints :
                        /\ next = Some(TierPoints[i])
                        /\ run.r.next_level_improvement_pct = Some(TierThreshold[i])
                        /\ earned = IF i = 1 THEN 0 ELSE TierPoints[i - 1]
                  /\ next[1] > earned
            /\ (next = None) <=> (earned = 18)
            /\ (next = None) <=> (run.r.next_level_improvement_pct = None)

\* A result with 3 credits earned and the entry after it, 5 credits at
\* 10 %, as the next tier.
C26_Witness ==
    \E run \in LeedRuns(last) :
        /\ run.r.earned_credits = 3
        /\ run.r.next_level_credits = Some(5)
        /\ run.r.next_level_improvement_pct = Some(10)

\* C27: certification_eligible is true exactly when earned_credits >= 1,
\* which for a baseline > 0 is exactly when improvement_pct >= 2; in an
\* Assessment of assess_building it is true exactly when performance_rating
\* is not "Below Baseline".
C27_EligibleFromOneCredit ==
    /\ \A run \in LeedRuns(last) :
          /\ run.r.certification_eligible <=> run.r.earned_credits >= 1
          /\ run.b > 0 =>
                (run.r.certification_eligible <=> ImprovementAtLeast(run, 2))
    /\ (last.op = "assess_building" /\ ~Raised(last.result)) =>
          (last.result.leed_assessment.certification_eligible
              <=> last.result.performance_rating # "Below Baseline")

\* An Assessment with exactly one credit: eligible and rated Slightly Above
\* Baseline.
C27_Witness ==
    /\ last.op = "assess_building"
    /\ ~Raised(last.result)
    /\ last.floor_area > 0
    /\ last.result.leed_assessment.earned_credits = 1
    /\ last.result.leed_assessment.certification_eligible
    /\ last.result.performance_rating = "Slightly Above Baseline"

-----------------------------------------------------------------------------
(* Claims about the recommendations of an Assessment.                      *)

\* C28: in every Assessment of assess_building the gap handed to the
\* generator is >= 0, the recommendations are in the order Renewable
\* Energy, HVAC Efficiency, Building Envelope, Lighting Systems (those that
\* fired) and every estimated_impact_tons is >= 0; for a building with no
\* next tier the fired recommendations are still returned, each with
\* impact 0.
C28_AssessmentRecommendations ==
    (last.op = "assess_building" /\ ~Raised(last.result)) =>
        LET leed == last.result.leed_assessment
            recs == last.result.recommendations
        IN  /\ leed.emissions_reduction_needed_tons >= 0
            /\ \A i \in 1..Len(recs), j \in 1..Len(recs) :
                  i < j => RuleOrder(recs[i].category) < RuleOrder(recs[j].category)
            /\ \A i \in 1..Len(recs) : recs[i].estimated_impact_tons >= 0
            /\ leed.next_level_credits = None =>
                  /\ \A i \in 1..Len(recs) : recs[i].estimated_impact_tons = 0
                  /\ Recommends(recs, "Renewable Energy")
                        <=> Get(last.current_features, "renewable_pct", 0) < 30
                  /\ Recommends(recs, "HVAC Efficiency")
                        <=> GetIn(last.current_features, "hvac_type",
                                  {"Gas Furnace", "Electric Baseboard"})
                  /\ Recommends(recs, "Building Envelope")
                        <=> GetIn(last.current_features, "insulation_rating",
                                  {"Poor", "Fair"})
                  /\ Recommends(recs, "Lighting Systems")
                        <=> Get(last.current_features, "led_lighting_pct", 0) < 90

\* A building at the maximum tier with the four recommendations, each of
\* impact 0.
C28_Witness ==
    /\ last.op = "assess_building"
    /\ last.floor_area > 0
    /\ ~Raised(last.result)
    /\ last.result.leed_assessment.earned_credits = 18
    /\ last.result.leed_assessment.next_level_credits = None
    /\ Len(last.result.recommendations) = 4
    /\ \A i \in 1..4 : last.result.recommendations[i].estimated_impact_tons = 0

\* An Assessment with a positive gap and the four recommendations in rule
\* order, from the largest impact to the smallest.
C28_WitnessPositiveGap ==
    /\ last.op = "assess_building"
    /\ ~Raised(last.result)
    /\ last.result.leed_assessment.emissions_reduction_needed_tons > 0
    /\ Len(last.result.recommendations) = 4
    /\ last.result.recommendations[1].category = "Renewable Energy"
    /\ last.result.recommendations[4].category = "Lighting Systems"
    /\ last.result.recommendations[1].estimated_impact_tons
          > last.result.recommendations[4].estimated_impact_tons

\* C29: a key absent from the features dict does not make the generator
\* fail: without renewable_pct the renewable rule fires and without
\* led_lighting_pct the lighting rule fires (both read as 0), without
\* hvac_type the HVAC rule does not fire and without insulation_rating the
\* envelope rule does not; an empty dict yields exactly the renewable and
\* the lighting recommendation, in that order for a gap >= 0 (the gaps an
\* assessment hands on).
C29_AbsentKeys ==
    \A run \in RecRuns(last) :
        /\ "renewable_pct" \notin DOMAIN run.f =>
              Recommends(run.recs, "Renewable Energy")
        /\ "led_lighting_pct" \notin DOMAIN run.f =>
              Recommends(run.recs, "Lighting Systems")
        /\ "hvac_type" \notin DOMAIN run.f =>
              ~Recommends(run.recs, "HVAC Efficiency")
        /\ "insulation_rating" \notin DOMAIN run.f =>
              ~Recommends(run.recs, "Building Envelope")
        /\ DOMAIN run.f = {} =>
              /\ Len(run.recs) = 2
              /\ {run.recs[1].category, run.recs[2].category}
                    = {"Renewable Energy", "Lighting Systems"}
              /\ run.gap >= 0 =>
                    /\ run.recs[1].category = "Renewable Energy"
                    /\ run.recs[2].category = "Lighting Systems"

\* The generator called with an empty dict and a gap of 30 t: renewable
\* (9 t) and lighting (3 t).
C29_Witness ==
    /\ last.op = "_generate_cert_recommendations"
    /\ DOMAIN last.features = {}
    /\ last.target_reduction = 300
    /\ Len(last.result) = 2
    /\ last.result[1].category = "Renewable Energy"
    /\ last.result[1].estimated_impact_tons = 9000
    /\ last.result[2].category = "Lighting Systems"
    /\ last.result[2].estimated_impact_tons = 3000

-----------------------------------------------------------------------------
(* Claims about POST /predict/batch.                                       *)

\* C30: with the model loaded predict_batch returns one entry per input
\* building, in input order (entry k is the prediction of building k, or
\* the error marker when its prediction fails), and count is the number of
\* input buildings; without the model the whole batch is rejected with a
\* 503 and no building is processed.
C30_OneEntryPerBuilding ==
    last.op = "predict_batch" =>
        IF last.artifacts.loaded
        THEN /\ ~Raised(last.result)
             /\ Len(last.result.predictions) = Len(last.buildings)
             /\ last.result.count = Len(last.buildings)
             /\ \A k \in DOMAIN last.buildings :
                   IF Raised(model_predict(last.buildings[k], last.artifacts))
                   THEN IsMarker(last.result.predictions[k])
                   ELSE last.result.predictions[k]
                            \in predict(last.buildings[k], last.artifacts)
        ELSE last.result = [error |-> "HTTPException", status_code |-> 503]

\* A batch of a building of 8000 sq ft and one of 15000 sq ft, both
\* predicted: 16.00 t first, 30.00 t second, count 2.
C30_Witness ==
    /\ last.op = "predict_batch"
    /\ last.artifacts.loaded
    /\ Len(last.buildings) = 2
    /\ last.buildings[1].floor_area_sqft = 8000
    /\ last.buildings[2].floor_area_sqft = 15000
    /\ last.result.count = 2
    /\ ~IsMarker(last.result.predictions[1])
    /\ ~IsMarker(last.result.predictions[2])
    /\ last.result.predictions[1].co2_emissions_tons_year = 1600
    /\ last.result.predictions[2].co2_emissions_tons_year = 3000

\* A batch sent to an API that started without its model: 503.
C30_WitnessNotLoaded ==
    /\ last.op = "predict_batch"
    /\ ~last.artifacts.loaded
    /\ Len(last.buildings) = 2
    /\ Raised(last.result)
    /\ last.result.status_code = 503

====
